---- MODULE Spec2Model ----
(***************************************************************************)
(* Fan-control engine of the msi-ec driver: profile resolution, the curve  *)
(* store and sync engine, the fan-mode / PWM-enable state machine and the  *)
(* curve text codec, modelled from src/msi-ec.c.                           *)
(***************************************************************************)
EXTENDS Integers, Sequences, FiniteSets, TLC

VARIABLES
    phase,                        \* "unloaded", "probing", "running", "failed", "exited"
    firmware,                     \* module parameter `firmware` (NULL when not given)
    debug,                        \* module parameter `debug`
    conf_loaded,
    conf,                         \* current configuration (struct msi_ec_conf)
    ec,                           \* EC register file: address -> byte
    ec_fw_version,                \* firmware version string held by the EC
    curve_temp,                   \* fan -> u8[CURVE_MAX_ENTRIES]   (0 = cpu, 1 = gpu)
    curve_fan_speed,
    curve_temp_default,
    curve_fan_speed_default,
    virtual_hwmon_pwm_enable,     \* channel -> int
    threads                       \* the two requests in flight and where each stands

vars == <<phase, firmware, debug, conf_loaded, conf, ec, ec_fw_version,
          curve_temp, curve_fan_speed, curve_temp_default, curve_fan_speed_default,
          virtual_hwmon_pwm_enable, threads>>

----------------------------------------------------------------------------
(* Bounds of the model *)

\* entries_count of the curves of CONF401 (7 in the source), scaled down
CurveEntries == 3

\* the bus may fail any one of the first MaxFailAt EC accesses of a handler
MaxFailAt == 4

----------------------------------------------------------------------------
(* Program constants *)

MSI_EC_ADDR_UNKNOWN == 65281
MSI_EC_ADDR_UNSUPP == 65281
MSI_EC_FW_VERSION_ADDRESS == 160
MSI_EC_FW_VERSION_LENGTH == 12
CURVE_MAX_ENTRIES == 16
CURVE_APPLY_STRATEGY_NORMAL == 0
CURVE_APPLY_STRATEGY_RESET_ON_AUTO == 1
ALL_CURVES_COUNT == 2
CurveMaxSpeed == 150

FM_AUTO_NAME == "auto"
FM_SILENT_NAME == "silent"
FM_BASIC_NAME == "basic"
FM_ADVANCED_NAME == "advanced"

PWM_ENABLE_FULL == 0
PWM_ENABLE_MANUAL == 1
PWM_ENABLE_AUTO == 2
PWM_ENABLE_SILENT == 3
PWM_ENABLE_BASIC == 4

EINVAL == 22
EIO == 5
ENODATA == 61
EOPNOTSUPP == 95

\* a NULL pointer (char * or struct *)
NULL == "<NULL>"

\* result of a handler that dereferenced a NULL pointer: the kernel oopses and
\* kills the calling task; what the handler already did stays done
OOPS == "<OOPS>"

MSI_EC_MODE_NULL == [name |-> NULL, value |-> 0]

Mode(n, v) == [name |-> n, value |-> v]

\* struct msi_ec_fan_curve
Curve(speed, temp, entries, strategy, max) ==
    [speed_start_address |-> speed, temperature_start_address |-> temp,
     entries_count |-> entries, apply_strategy |-> strategy, max_speed |-> max]

\* a fan_curve member left out of the initializer: all fields zero
NO_CURVE == Curve(0, 0, 0, 0, 0)

\* struct msi_ec_conf, restricted to the members the fan-control engine uses;
\* id stands for the members left out, which tell one initializer from another;
\* modes[5] is padded with zeroed entries as the C initializer does
Conf(id, fw, cb_address, cb_bit, fm_address, modes, cpu_curve, gpu_curve) ==
    [id           |-> id,
     allowed_fw   |-> fw,
     cooler_boost |-> [address |-> cb_address, bit |-> cb_bit],
     fan_mode     |-> [address |-> fm_address,
                       modes |-> [i \in 1..5 |-> IF i <= Len(modes) THEN modes[i]
                                                 ELSE MSI_EC_MODE_NULL]],
     cpu          |-> [fan_curve |-> cpu_curve],
     gpu          |-> [fan_curve |-> gpu_curve]]

\* `static struct msi_ec_conf conf` before load_configuration(): zero-filled
CONF_ZERO ==
    [id           |-> NULL,
     allowed_fw   |-> <<>>,
     cooler_boost |-> [address |-> 0, bit |-> 0],
     fan_mode     |-> [address |-> 0, modes |-> [i \in 1..5 |-> MSI_EC_MODE_NULL]],
     cpu          |-> [fan_curve |-> NO_CURVE],
     gpu          |-> [fan_curve |-> NO_CURVE]]

----------------------------------------------------------------------------
(* The profile registry *)

\* the profiles CONF0 .. CONF44 in the order of the array CONFIGURATIONS[],
\* each with the lines of src/msi-ec.c that define it
CONFIGURATIONS ==
    <<
      Conf("CONF0", <<"14C1EMS1.012", "14C1EMS1.101", "14C1EMS1.102">>,     \* lines 70-137
           152, 7, 244, <<Mode(FM_AUTO_NAME, 13), Mode(FM_SILENT_NAME, 29), Mode(FM_BASIC_NAME, 77), Mode(FM_ADVANCED_NAME, 141)>>,
           NO_CURVE, NO_CURVE),
      Conf("CONF1", <<"17F2EMS1.103", "17F2EMS1.104", "17F2EMS1.106", "17F2EMS1.107">>,     \* lines 139-207
           152, 7, 244, <<Mode(FM_AUTO_NAME, 13), Mode(FM_BASIC_NAME, 77), Mode(FM_ADVANCED_NAME, 141)>>,
           NO_CURVE, NO_CURVE),
      Conf("CONF2", <<"1552EMS1.115", "1552EMS1.118", "1552EMS1.119", "1552EMS1.120">>,     \* lines 209-278
           152, 7, 212, <<Mode(FM_AUTO_NAME, 13), Mode(FM_SILENT_NAME, 29), Mode(FM_BASIC_NAME, 77), Mode(FM_ADVANCED_NAME, 141)>>,
           NO_CURVE, NO_CURVE),
      Conf("CONF3", <<"1592EMS1.111">>,     \* lines 280-346
           152, 7, 212, <<Mode(FM_AUTO_NAME, 13), Mode(FM_SILENT_NAME, 29), Mode(FM_BASIC_NAME, 77), Mode(FM_ADVANCED_NAME, 141)>>,
           NO_CURVE, NO_CURVE),
      Conf("CONF4", <<"16V4EMS1.114">>,     \* lines 348-413
           152, 7, 212, <<Mode(FM_AUTO_NAME, 13), Mode(FM_SILENT_NAME, 29), Mode(FM_ADVANCED_NAME, 141)>>,
           NO_CURVE, NO_CURVE),
      Conf("CONF5", <<"158LEMS1.103", "158LEMS1.105", "158LEMS1.106">>,     \* lines 415-482
           152, 7, 244, <<Mode(FM_AUTO_NAME, 13), Mode(FM_SILENT_NAME, 29), Mode(FM_ADVANCED_NAME, 141)>>,
           NO_CURVE, NO_CURVE),
      Conf("CONF6", <<"1542EMS1.102", "1542EMS1.104">>,     \* lines 484-551
           152, 7, 244, <<Mode(FM_AUTO_NAME, 13), Mode(FM_SILENT_NAME, 29), Mode(FM_ADVANCED_NAME, 141)>>,
           NO_CURVE, NO_CURVE),
      Conf("CONF7", <<"17FKEMS1.108", "17FKEMS1.109", "17FKEMS1.10A">>,     \* lines 553-621
           152, 7, 244, <<Mode(FM_AUTO_NAME, 13), Mode(FM_SILENT_NAME, 29), Mode(FM_ADVANCED_NAME, 141)>>,
           NO_CURVE, NO_CURVE),
      Conf("CONF8", <<"14F1EMS1.114", "14F1EMS1.115", "14F1EMS1.116", "14F1EMS1.117", "14F1EMS1.118", "14F1EMS1.119", "14F1EMS1.120">>,     \* lines 623-694
           152, 7, 212, <<Mode(FM_AUTO_NAME, 13), Mode(FM_SILENT_NAME, 29), Mode(FM_ADVANCED_NAME, 141)>>,
           NO_CURVE, NO_CURVE),
      Conf("CONF9", <<"14JKEMS1.104">>,     \* lines 696-761
           152, 7, 244, <<Mode(FM_AUTO_NAME, 13), Mode(FM_SILENT_NAME, 29), Mode(FM_ADVANCED_NAME, 141)>>,
           NO_CURVE, NO_CURVE),
      Conf("CONF10", <<"1582EMS1.107">>,     \* lines 763-829
           152, 7, 212, <<Mode(FM_AUTO_NAME, 13), Mode(FM_SILENT_NAME, 29), Mode(FM_ADVANCED_NAME, 141)>>,
           NO_CURVE, NO_CURVE),
      Conf("CONF11", <<"16S6EMS1.111">>,     \* lines 831-896
           152, 7, 212, <<Mode(FM_AUTO_NAME, 13), Mode(FM_SILENT_NAME, 29), Mode(FM_ADVANCED_NAME, 77)>>,
           NO_CURVE, NO_CURVE),
      Conf("CONF12", <<"16R6EMS1.104", "16R6EMS1.106", "16R6EMS1.107">>,     \* lines 898-966
           152, 7, 212, <<Mode(FM_AUTO_NAME, 13), Mode(FM_SILENT_NAME, 29), Mode(FM_ADVANCED_NAME, 141)>>,
           NO_CURVE, NO_CURVE),
      Conf("CONF13", <<"1594EMS1.109">>,     \* lines 968-1033
           152, 7, 212, <<Mode(FM_AUTO_NAME, 13), Mode(FM_SILENT_NAME, 29), Mode(FM_ADVANCED_NAME, 141)>>,
           NO_CURVE, NO_CURVE),
      Conf("CONF14", <<"17L2EMS1.108">>,     \* lines 1035-1107
           152, 7, 212, <<Mode(FM_AUTO_NAME, 13), Mode(FM_SILENT_NAME, 29), Mode(FM_ADVANCED_NAME, 141)>>,
           NO_CURVE, NO_CURVE),
      Conf("CONF15", <<"15CKEMS1.108">>,     \* lines 1109-1174
           152, 7, 244, <<Mode(FM_AUTO_NAME, 13), Mode(FM_SILENT_NAME, 29), Mode(FM_ADVANCED_NAME, 141)>>,
           NO_CURVE, NO_CURVE),
      Conf("CONF16", <<"155LEMS1.105", "155LEMS1.106">>,     \* lines 1176-1242
           152, 7, 244, <<Mode(FM_AUTO_NAME, 13), Mode(FM_SILENT_NAME, 29), Mode(FM_ADVANCED_NAME, 141)>>,
           NO_CURVE, NO_CURVE),
      Conf("CONF17", <<"15K1IMS1.110", "15K1IMS1.112", "15K1IMS1.113">>,     \* lines 1244-1316
           152, 7, 212, <<Mode(FM_AUTO_NAME, 13), Mode(FM_SILENT_NAME, 29), Mode(FM_ADVANCED_NAME, 141)>>,
           NO_CURVE, NO_CURVE),
      Conf("CONF18", <<"15HKEMS1.104">>,     \* lines 1318-1383
           152, 7, 244, <<Mode(FM_AUTO_NAME, 13), Mode(FM_SILENT_NAME, 29), Mode(FM_ADVANCED_NAME, 141)>>,
           NO_CURVE, NO_CURVE),
      Conf("CONF19", <<"1543EMS1.113">>,     \* lines 1385-1451
           152, 7, 212, <<Mode(FM_AUTO_NAME, 13), Mode(FM_SILENT_NAME, 29), Mode(FM_ADVANCED_NAME, 141)>>,
           NO_CURVE, NO_CURVE),
      Conf("CONF20", <<"1581EMS1.107">>,     \* lines 1453-1519
           152, 7, 212, <<Mode(FM_AUTO_NAME, 13), Mode(FM_SILENT_NAME, 29), Mode(FM_ADVANCED_NAME, 141)>>,
           NO_CURVE, NO_CURVE),
      Conf("CONF21", <<"16R3EMS1.102", "16R3EMS1.104">>,     \* lines 1521-1588
           152, 7, 244, <<Mode(FM_AUTO_NAME, 13), Mode(FM_BASIC_NAME, 77), Mode(FM_ADVANCED_NAME, 141)>>,
           NO_CURVE, NO_CURVE),
      Conf("CONF22", <<"17LLEMS1.106">>,     \* lines 1590-1656
           152, 7, 244, <<Mode(FM_AUTO_NAME, 13), Mode(FM_SILENT_NAME, 29), Mode(FM_ADVANCED_NAME, 141)>>,
           NO_CURVE, NO_CURVE),
      Conf("CONF23", <<"16WKEMS1.105">>,     \* lines 1658-1728
           152, 7, 244, <<Mode(FM_AUTO_NAME, 13), Mode(FM_SILENT_NAME, 29), Mode(FM_ADVANCED_NAME, 141)>>,
           NO_CURVE, NO_CURVE),
      Conf("CONF24", <<"14D1EMS1.103">>,     \* lines 1730-1795
           152, 7, 244, <<Mode(FM_AUTO_NAME, 13), Mode(FM_SILENT_NAME, 29), Mode(FM_ADVANCED_NAME, 141)>>,
           NO_CURVE, NO_CURVE),
      Conf("CONF25", <<"14F1EMS1.209", "14F1EMS1.211">>,     \* lines 1797-1863
           152, 7, 212, <<Mode(FM_AUTO_NAME, 13), Mode(FM_SILENT_NAME, 29), Mode(FM_ADVANCED_NAME, 141)>>,
           NO_CURVE, NO_CURVE),
      Conf("CONF26", <<"14DLEMS1.105">>,     \* lines 1865-1930
           152, 7, 212, <<Mode(FM_AUTO_NAME, 13), Mode(FM_SILENT_NAME, 29), Mode(FM_ADVANCED_NAME, 141)>>,
           NO_CURVE, NO_CURVE),
      Conf("CONF27", <<"17S2IMS1.113">>,     \* lines 1932-1998
           152, 7, 212, <<Mode(FM_AUTO_NAME, 13), Mode(FM_SILENT_NAME, 29), Mode(FM_ADVANCED_NAME, 141)>>,
           NO_CURVE, NO_CURVE),
      Conf("CONF28", <<"1822EMS1.105", "1822EMS1.109", "1822EMS1.111", "1822EMS1.112", "1822EMS1.114", "1822EMS1.115">>,     \* lines 2000-2075
           152, 7, 212, <<Mode(FM_AUTO_NAME, 13), Mode(FM_SILENT_NAME, 29), Mode(FM_ADVANCED_NAME, 141)>>,
           NO_CURVE, NO_CURVE),
      Conf("CONF29", <<"16V5EMS1.107">>,     \* lines 2077-2146
           152, 7, 212, <<Mode(FM_AUTO_NAME, 13), Mode(FM_SILENT_NAME, 29), Mode(FM_ADVANCED_NAME, 141)>>,
           NO_CURVE, NO_CURVE),
      Conf("CONF30", <<"17Q2IMS1.10D">>,     \* lines 2148-2214
           152, 7, 212, <<Mode(FM_AUTO_NAME, 13), Mode(FM_SILENT_NAME, 29), Mode(FM_ADVANCED_NAME, 141)>>,
           NO_CURVE, NO_CURVE),
      Conf("CONF31", <<"16Q4EMS1.110">>,     \* lines 2216-2282
           152, 7, 244, <<Mode(FM_BASIC_NAME, 76), Mode(FM_AUTO_NAME, 12), Mode(FM_ADVANCED_NAME, 140)>>,
           NO_CURVE, NO_CURVE),
      Conf("CONF32", <<"158PIMS1.207", "158PIMS1.112">>,     \* lines 2284-2350
           152, 7, 212, <<Mode(FM_AUTO_NAME, 13), Mode(FM_SILENT_NAME, 29), Mode(FM_ADVANCED_NAME, 141)>>,
           NO_CURVE, NO_CURVE),
      Conf("CONF33", <<"17N1EMS1.109">>,     \* lines 2352-2417
           152, 7, 212, <<Mode(FM_AUTO_NAME, 13), Mode(FM_SILENT_NAME, 29), Mode(FM_ADVANCED_NAME, 77)>>,
           NO_CURVE, NO_CURVE),
      Conf("CONF34", <<"14C6EMS1.109">>,     \* lines 2419-2484
           152, 7, 212, <<Mode(FM_AUTO_NAME, 13), Mode(FM_SILENT_NAME, 29), Mode(FM_ADVANCED_NAME, 77)>>,
           NO_CURVE, NO_CURVE),
      Conf("CONF35", <<"15M2IMS1.113">>,     \* lines 2486-2557
           152, 7, 212, <<Mode(FM_AUTO_NAME, 13), Mode(FM_SILENT_NAME, 29), Mode(FM_ADVANCED_NAME, 141)>>,
           NO_CURVE, NO_CURVE),
      Conf("CONF36", <<"1585EMS1.115">>,     \* lines 2559-2624
           152, 7, 212, <<Mode(FM_AUTO_NAME, 13), Mode(FM_SILENT_NAME, 29), Mode(FM_ADVANCED_NAME, 141)>>,
           NO_CURVE, NO_CURVE),
      Conf("CONF37", <<"15M1IMS1.113">>,     \* lines 2626-2695
           152, 7, 212, <<Mode(FM_AUTO_NAME, 13), Mode(FM_SILENT_NAME, 29), Mode(FM_ADVANCED_NAME, 141)>>,
           NO_CURVE, NO_CURVE),
      Conf("CONF38", <<"17E8IMS1.106", "17E8EMS1.101">>,     \* lines 2697-2762
           152, 7, 244, <<Mode(FM_AUTO_NAME, 0), Mode(FM_ADVANCED_NAME, 128)>>,
           NO_CURVE, NO_CURVE),
      Conf("CONF39", <<"16R8IMS1.117">>,     \* lines 2763-2828
           152, 7, 212, <<Mode(FM_AUTO_NAME, 13), Mode(FM_SILENT_NAME, 29), Mode(FM_ADVANCED_NAME, 141)>>,
           NO_CURVE, NO_CURVE),
      Conf("CONF40", <<"17S1IMS1.105">>,     \* lines 2830-2901
           152, 7, 212, <<Mode(FM_AUTO_NAME, 13), Mode(FM_SILENT_NAME, 29), Mode(FM_ADVANCED_NAME, 141)>>,
           NO_CURVE, NO_CURVE),
      Conf("CONF401", <<"1T52EMS1.104">>,     \* lines 2903-2982
           152, 7, 212, <<Mode(FM_AUTO_NAME, 0), Mode(FM_SILENT_NAME, 16), Mode(FM_ADVANCED_NAME, 128)>>,
           Curve(114, 106, CurveEntries, CURVE_APPLY_STRATEGY_RESET_ON_AUTO, CurveMaxSpeed),
           Curve(138, 130, CurveEntries, CURVE_APPLY_STRATEGY_RESET_ON_AUTO, CurveMaxSpeed)),
      Conf("CONF41", <<"15M1IMS2.111">>,     \* lines 2984-3046
           152, 7, 212, <<Mode(FM_AUTO_NAME, 13), Mode(FM_ADVANCED_NAME, 141)>>,
           NO_CURVE, NO_CURVE),
      Conf("CONF42", <<"14L1EMS1.307", "14L1EMS1.308">>,     \* lines 3048-3114
           152, 7, 212, <<Mode(FM_AUTO_NAME, 13), Mode(FM_SILENT_NAME, 29), Mode(FM_ADVANCED_NAME, 141)>>,
           NO_CURVE, NO_CURVE),
      Conf("CONF43", <<"14DKEMS1.104">>,     \* lines 3116-3181
           152, 7, 212, <<Mode(FM_AUTO_NAME, 13), Mode(FM_SILENT_NAME, 29), Mode(FM_ADVANCED_NAME, 141)>>,
           NO_CURVE, NO_CURVE),
      Conf("CONF44", <<"17LNIMS1.505">>,     \* lines 3183-3254
           152, 7, 212, <<Mode(FM_AUTO_NAME, 13), Mode(FM_SILENT_NAME, 29), Mode(FM_ADVANCED_NAME, 141)>>,
           NO_CURVE, NO_CURVE)
    >>

\* the profile defined under a name
ConfNamed(id) == CHOOSE c \in {CONFIGURATIONS[i] : i \in 1..Len(CONFIGURATIONS)} : c.id = id

----------------------------------------------------------------------------
(* Register access primitive.  A handler runs on a machine record m holding *)
(* the EC register file, the curve buffers, the power-state cache, the log  *)
(* of EC accesses made so far (io: <<"r" or "w", address, byte, done>>) and  *)
(* the position of the access the bus fails (failAt, 0 = none).             *)

\* `int r = v; ...`: the value v of a call, named r in what follows
Bind(v, F(_)) == F(v)

Machine(f) ==
    [ec |-> ec,
     curve_temp |-> curve_temp, curve_fan_speed |-> curve_fan_speed,
     curve_temp_default |-> curve_temp_default,
     curve_fan_speed_default |-> curve_fan_speed_default,
     virtual_hwmon_pwm_enable |-> virtual_hwmon_pwm_enable,
     io |-> <<>>, failAt |-> f]

\* u8 addr: the address is truncated to a byte
U8(x) == x % 256

\* ec_read(addr, &val): val is left alone when the bus fails
ec_read(m, addr) ==
    IF Len(m.io) + 1 = m.failAt
    THEN [res |-> -EIO, val |-> 0,
          m |-> [m EXCEPT !.io = Append(@, <<"r", U8(addr), 0, FALSE>>)]]
    ELSE [res |-> 0, val |-> m.ec[U8(addr)],
          m |-> [m EXCEPT !.io = Append(@, <<"r", U8(addr), m.ec[U8(addr)], TRUE>>)]]

\* ec_write(addr, val)
ec_write(m, addr, val) ==
    IF Len(m.io) + 1 = m.failAt
    THEN [res |-> -EIO,
          m |-> [m EXCEPT !.io = Append(@, <<"w", U8(addr), U8(val), FALSE>>)]]
    ELSE [res |-> 0,
          m |-> [m EXCEPT !.ec[U8(addr)] = U8(val),
                          !.io = Append(@, <<"w", U8(addr), U8(val), TRUE>>)]]

BIT(bit) == 2 ^ bit

TestBit(stored, bit) == (stored \div BIT(bit)) % 2 = 1

\* stored |= BIT(bit)
SetBit(stored, bit) == IF TestBit(stored, bit) THEN stored ELSE stored + BIT(bit)

\* stored &= ~BIT(bit)
ClearBit(stored, bit) == IF TestBit(stored, bit) THEN stored - BIT(bit) ELSE stored

ec_set_bit(m, addr, bit, value) ==
    Bind(ec_read(m, addr), LAMBDA r :
        IF r.res < 0 THEN [res |-> r.res, m |-> r.m]
        ELSE ec_write(r.m, addr, IF value THEN SetBit(r.val, bit)
                                 ELSE ClearBit(r.val, bit)))

ec_check_bit(m, addr, bit) ==
    Bind(ec_read(m, addr), LAMBDA r :
        IF r.res < 0 THEN [res |-> r.res, output |-> FALSE, m |-> r.m]
        ELSE [res |-> 0, output |-> TestBit(r.val, bit), m |-> r.m])

----------------------------------------------------------------------------
(* Fan mode *)

\* index (1-based) of the first entry of conf.fan_mode.modes with a NULL
\* name, 6 when all five entries are named: where the
\* `for (i = 0; modes[i].name; i++)` loops stop
FirstNullMode ==
    IF \E i \in 1..5 : conf.fan_mode.modes[i].name = NULL
    THEN CHOOSE i \in 1..5 : /\ conf.fan_mode.modes[i].name = NULL
                             /\ \A j \in 1..(i-1) : conf.fan_mode.modes[j].name # NULL
    ELSE 6

\* the entries those loops visit
NamedModes == 1..(FirstNullMode - 1)

\* first element of a non-empty set of indices
First(S) == CHOOSE i \in S : \A j \in S : i <= j

\* the named entries of conf.fan_mode.modes holding value
ModesOfValue(value) == {i \in NamedModes : value = conf.fan_mode.modes[i].value}

\* fan_mode_get taking a value no mode has for the advanced mode
fan_mode_get_unknown_as_advanced(m) ==
    Bind(ec_read(m, conf.fan_mode.address), LAMBDA r :
        IF r.res < 0 THEN [res |-> r.res, dst |-> NULL, m |-> r.m]
        ELSE IF ModesOfValue(r.val) # {}
             THEN [res |-> 0, m |-> r.m,
                   dst |-> conf.fan_mode.modes[First(ModesOfValue(r.val))].name]
        ELSE [res |-> 0, dst |-> FM_ADVANCED_NAME, m |-> r.m])

fan_mode_get(m) ==
    Bind(ec_read(m, conf.fan_mode.address), LAMBDA r :
        IF r.res < 0 THEN [res |-> r.res, dst |-> NULL, m |-> r.m]
        ELSE IF ModesOfValue(r.val) # {}
             THEN [res |-> 0, m |-> r.m,
                   dst |-> conf.fan_mode.modes[First(ModesOfValue(r.val))].name]
        ELSE IF r.val = 0 THEN [res |-> MSI_EC_ADDR_UNSUPP, dst |-> NULL, m |-> r.m]
        ELSE [res |-> r.val, dst |-> NULL, m |-> r.m])

\* strcmp(conf.fan_mode.modes[i].name, mode) over all ARRAY_SIZE entries: a
\* NULL name met before a match is dereferenced
fan_mode_is_available(mode) ==
    IF \E i \in NamedModes : conf.fan_mode.modes[i].name = mode THEN "true"
    ELSE IF FirstNullMode <= 5 THEN OOPS
    ELSE "false"

----------------------------------------------------------------------------
(* Curve store and sync engine *)

\* a u8 * into one of the curve buffers: <<array name, fan>>
Deref(m, p) == m[p[1]][p[2]]

\* struct curve_pack of fan 0 (cpu_curve_package) and 1 (gpu_curve_package)
curve_pack(fan) ==
    [curve |-> IF fan = 0 THEN conf.cpu.fan_curve ELSE conf.gpu.fan_curve,
     curve_temp |-> <<"curve_temp", fan>>,
     curve_temp_default |-> <<"curve_temp_default", fan>>,
     curve_fan_speed |-> <<"curve_fan_speed", fan>>,
     curve_fan_speed_default |-> <<"curve_fan_speed_default", fan>>]

\* is_curve_allowed without the test of entries_count
is_curve_allowed_any_count(curve) ==
    ~ (\/ curve.speed_start_address = MSI_EC_ADDR_UNSUPP
       \/ curve.speed_start_address = 0
       \/ curve.temperature_start_address = MSI_EC_ADDR_UNSUPP
       \/ curve.temperature_start_address = 0)

is_curve_allowed(curve) ==
    ~ (\/ curve.speed_start_address = MSI_EC_ADDR_UNSUPP
       \/ curve.speed_start_address = 0
       \/ curve.temperature_start_address = MSI_EC_ADDR_UNSUPP
       \/ curve.temperature_start_address = 0
       \/ curve.entries_count <= 0
       \/ curve.entries_count > CURVE_MAX_ENTRIES)

\* for (; i < n; i++, j++) if (ec_read(j, &buf[i])) return -EIO;
RECURSIVE ec_read_loop(_, _, _, _, _)
ec_read_loop(m, j, buf, i, n) ==
    IF i >= n THEN [res |-> 0, m |-> m]
    ELSE Bind(ec_read(m, j), LAMBDA r :
             IF r.res # 0 THEN [res |-> -EIO, m |-> r.m]
             ELSE ec_read_loop([r.m EXCEPT ![buf[1]][buf[2]][i] = r.val],
                               j + 1, buf, i + 1, n))

\* for (; i < n; i++, j++) if (ec_write(j, buf[i])) return -EIO;
RECURSIVE ec_write_loop(_, _, _, _, _)
ec_write_loop(m, j, buf, i, n) ==
    IF i >= n THEN [res |-> 0, m |-> m]
    ELSE Bind(ec_write(m, j, Deref(m, buf)[i]), LAMBDA w :
             IF w.res # 0 THEN [res |-> -EIO, m |-> w.m]
             ELSE ec_write_loop(w.m, j + 1, buf, i + 1, n))

sync_ec_curve(m, curve, fan_speed_buf, temperature_buf) ==
    IF ~ is_curve_allowed(curve) THEN [res |-> -EINVAL, m |-> m]
    ELSE Bind(ec_read_loop(m, curve.speed_start_address, fan_speed_buf,
                           0, curve.entries_count), LAMBDA s :
             IF s.res # 0 THEN s
             ELSE ec_read_loop(s.m, curve.temperature_start_address, temperature_buf,
                               0, curve.entries_count - 1))

push_ec_curve(m, curve, fan_speed_buf, temperature_buf) ==
    IF ~ is_curve_allowed(curve) THEN [res |-> -EINVAL, m |-> m]
    ELSE Bind(ec_write_loop(m, curve.speed_start_address, fan_speed_buf,
                            0, curve.entries_count), LAMBDA s :
             IF s.res # 0 THEN s
             ELSE ec_write_loop(s.m, curve.temperature_start_address, temperature_buf,
                                0, curve.entries_count - 1))

sync_ec_curve_safe(m, curve, fan_speed_buf, temperature_buf) ==
    IF curve.apply_strategy = CURVE_APPLY_STRATEGY_RESET_ON_AUTO
    THEN Bind(fan_mode_get(m), LAMBDA g :
             IF g.res # 0 THEN [res |-> -ENODATA, m |-> g.m]
             ELSE IF g.dst # FM_ADVANCED_NAME THEN [res |-> 0, m |-> g.m]
             ELSE sync_ec_curve(g.m, curve, fan_speed_buf, temperature_buf))
    ELSE sync_ec_curve(m, curve, fan_speed_buf, temperature_buf)

\* push_ec_curve_safe testing the fan mode whatever the apply strategy
push_ec_curve_safe_any_strategy(m, curve, fan_speed_buf, temperature_buf) ==
    Bind(fan_mode_get(m), LAMBDA g :
        IF g.res # 0 THEN [res |-> -ENODATA, m |-> g.m]
        ELSE IF g.dst # FM_ADVANCED_NAME THEN [res |-> 0, m |-> g.m]
        ELSE push_ec_curve(g.m, curve, fan_speed_buf, temperature_buf))

\* push_ec_curve_safe without the test of the fan mode
push_ec_curve_safe_ungated(m, curve, fan_speed_buf, temperature_buf) ==
    push_ec_curve(m, curve, fan_speed_buf, temperature_buf)

push_ec_curve_safe(m, curve, fan_speed_buf, temperature_buf) ==
    IF curve.apply_strategy = CURVE_APPLY_STRATEGY_RESET_ON_AUTO
    THEN Bind(fan_mode_get(m), LAMBDA g :
             IF g.res # 0 THEN [res |-> -ENODATA, m |-> g.m]
             ELSE IF g.dst # FM_ADVANCED_NAME THEN [res |-> 0, m |-> g.m]
             ELSE push_ec_curve(g.m, curve, fan_speed_buf, temperature_buf))
    ELSE push_ec_curve(m, curve, fan_speed_buf, temperature_buf)

\* curve_fan_mode_change_one entering manual mode with the default buffers
curve_fan_mode_change_one_enter_default(m, mode, curve_data) ==
    IF /\ curve_data.curve.apply_strategy = CURVE_APPLY_STRATEGY_RESET_ON_AUTO
       /\ is_curve_allowed(curve_data.curve)
    THEN IF mode = FM_ADVANCED_NAME
         THEN push_ec_curve(m, curve_data.curve, curve_data.curve_fan_speed_default,
                            curve_data.curve_temp_default)
         ELSE push_ec_curve(sync_ec_curve_safe(m, curve_data.curve,
                                               curve_data.curve_fan_speed,
                                               curve_data.curve_temp).m,
                            curve_data.curve,
                            curve_data.curve_fan_speed_default,
                            curve_data.curve_temp_default)
    ELSE [res |-> 0, m |-> m]

\* curve_fan_mode_change_one leaving manual mode without the push of the
\* default buffers
curve_fan_mode_change_one_no_reset(m, mode, curve_data) ==
    IF /\ curve_data.curve.apply_strategy = CURVE_APPLY_STRATEGY_RESET_ON_AUTO
       /\ is_curve_allowed(curve_data.curve)
    THEN IF mode = FM_ADVANCED_NAME
         THEN push_ec_curve(m, curve_data.curve,
                            curve_data.curve_fan_speed, curve_data.curve_temp)
         ELSE [res |-> 0,
               m |-> sync_ec_curve_safe(m, curve_data.curve, curve_data.curve_fan_speed,
                                        curve_data.curve_temp).m]
    ELSE [res |-> 0, m |-> m]

\* curve_fan_mode_change_one pulling with sync_ec_curve, whatever the mode
curve_fan_mode_change_one_pull_always(m, mode, curve_data) ==
    IF /\ curve_data.curve.apply_strategy = CURVE_APPLY_STRATEGY_RESET_ON_AUTO
       /\ is_curve_allowed(curve_data.curve)
    THEN IF mode = FM_ADVANCED_NAME
         THEN push_ec_curve(m, curve_data.curve,
                            curve_data.curve_fan_speed, curve_data.curve_temp)
         ELSE push_ec_curve(sync_ec_curve(m, curve_data.curve,
                                          curve_data.curve_fan_speed,
                                          curve_data.curve_temp).m,
                            curve_data.curve,
                            curve_data.curve_fan_speed_default,
                            curve_data.curve_temp_default)
    ELSE [res |-> 0, m |-> m]

\* curve_fan_mode_change_one entering manual mode with push_ec_curve_safe
curve_fan_mode_change_one_safe_push(m, mode, curve_data) ==
    IF /\ curve_data.curve.apply_strategy = CURVE_APPLY_STRATEGY_RESET_ON_AUTO
       /\ is_curve_allowed(curve_data.curve)
    THEN IF mode = FM_ADVANCED_NAME
         THEN push_ec_curve_safe(m, curve_data.curve,
                                 curve_data.curve_fan_speed, curve_data.curve_temp)
         ELSE push_ec_curve(sync_ec_curve_safe(m, curve_data.curve,
                                               curve_data.curve_fan_speed,
                                               curve_data.curve_temp).m,
                            curve_data.curve,
                            curve_data.curve_fan_speed_default,
                            curve_data.curve_temp_default)
    ELSE [res |-> 0, m |-> m]

\* the body of one iteration of the loops of curve_fan_mode_change
curve_fan_mode_change_one(m, mode, curve_data) ==
    IF /\ curve_data.curve.apply_strategy = CURVE_APPLY_STRATEGY_RESET_ON_AUTO
       /\ is_curve_allowed(curve_data.curve)
    THEN IF mode = FM_ADVANCED_NAME
         THEN push_ec_curve(m, curve_data.curve,
                            curve_data.curve_fan_speed, curve_data.curve_temp)
         ELSE \* the result of the pull is not looked at
              push_ec_curve(sync_ec_curve_safe(m, curve_data.curve,
                                               curve_data.curve_fan_speed,
                                               curve_data.curve_temp).m,
                            curve_data.curve,
                            curve_data.curve_fan_speed_default,
                            curve_data.curve_temp_default)
    ELSE [res |-> 0, m |-> m]

RECURSIVE curve_fan_mode_change_from(_, _, _)
curve_fan_mode_change_from(m, mode, i) ==
    IF i >= ALL_CURVES_COUNT THEN [res |-> 0, m |-> m]
    ELSE Bind(curve_fan_mode_change_one(m, mode, curve_pack(i)), LAMBDA r :
             IF r.res < 0 THEN r
             ELSE curve_fan_mode_change_from(r.m, mode, i + 1))

curve_fan_mode_change(m, mode) == curve_fan_mode_change_from(m, mode, 0)

----------------------------------------------------------------------------
(* Fan-mode name protocol and the PWM-enable state machine *)

\* sysfs_streq(): equal, or equal up to one trailing newline
sysfs_streq(s1, s2) == s1 = s2 \/ s1 \o "\n" = s2 \/ s1 = s2 \o "\n"

fan_mode_show(m) ==
    Bind(fan_mode_get(m), LAMBDA g :
        IF g.res < 0 THEN [res |-> g.res, out |-> <<>>, m |-> g.m]
        ELSE IF g.res = 0 THEN [res |-> 0, out |-> <<g.dst>>, m |-> g.m]
        ELSE [res |-> 0, out |-> <<"unknown", g.res>>, m |-> g.m])

\* change_and_write writing the fan-mode register before the transition
change_and_write_mode_first(m, i, ret) ==
    Bind(ec_write(m, conf.fan_mode.address, conf.fan_mode.modes[i].value), LAMBDA w :
        IF w.res < 0 THEN w
        ELSE Bind(curve_fan_mode_change(w.m, conf.fan_mode.modes[i].name),
                  LAMBDA c : IF c.res < 0 THEN c ELSE [res |-> ret, m |-> c.m]))

\* result = curve_fan_mode_change(mode); if (result < 0) return result;
\* result = ec_write(conf.fan_mode.address, conf.fan_mode.modes[i].value);
\* the value returned when both went through is ret
change_and_write(m, i, ret) ==
    Bind(curve_fan_mode_change(m, conf.fan_mode.modes[i].name), LAMBDA c :
        IF c.res < 0 THEN c
        ELSE Bind(ec_write(c.m, conf.fan_mode.address, conf.fan_mode.modes[i].value),
                  LAMBDA w : IF w.res < 0 THEN w ELSE [res |-> ret, m |-> w.m]))

\* the entries the loop of fan_mode_store matches with buf
ModesNamedLike(buf) ==
    {i \in NamedModes : sysfs_streq(conf.fan_mode.modes[i].name, buf)}

fan_mode_store(m, buf) ==
    IF ModesNamedLike(buf) = {} THEN [res |-> -EINVAL, m |-> m]
    ELSE change_and_write(m, First(ModesNamedLike(buf)), Len(buf))

\* the entries the loop of set_fan_mode matches with mode
ModesNamed(mode) ==
    {i \in 1..5 : /\ conf.fan_mode.modes[i].name # NULL
                  /\ conf.fan_mode.modes[i].name = mode}

set_fan_mode(m, mode) ==
    IF ModesNamed(mode) = {} THEN [res |-> -EINVAL, m |-> m]
    ELSE change_and_write(m, First(ModesNamed(mode)), 0)

set_cooler_boost(m, enable) ==
    IF conf.cooler_boost.address = MSI_EC_ADDR_UNSUPP THEN [res |-> -EINVAL, m |-> m]
    ELSE Bind(ec_set_bit(m, conf.cooler_boost.address, conf.cooler_boost.bit, enable),
              LAMBDA r : IF r.res < 0 THEN r ELSE [res |-> 0, m |-> r.m])

\* virtual_hwmon_pwm_enable[0] = virtual_hwmon_pwm_enable[1] = v
SetBoth(m, v) == [m EXCEPT !.virtual_hwmon_pwm_enable = [c \in 0..1 |-> v]]

\* if (fan_mode_is_available(mode)) result = set_fan_mode(mode);
\* else return -EINVAL;   -- on the machine set_cooler_boost(false) left
set_if_available(m, mode) ==
    IF fan_mode_is_available(mode) = OOPS THEN [res |-> 0, oops |-> TRUE, m |-> m]
    ELSE IF fan_mode_is_available(mode) = "true"
    THEN Bind(set_fan_mode(m, mode), LAMBDA sf :
             [res |-> sf.res, oops |-> FALSE, m |-> sf.m])
    ELSE [res |-> -EINVAL, oops |-> FALSE, m |-> m]

\* the cases PWM_ENABLE_MANUAL, PWM_ENABLE_SILENT and PWM_ENABLE_BASIC
hwmon_write_named(m, mode, v) ==
    Bind(set_if_available(set_cooler_boost(m, FALSE).m, mode), LAMBDA r :
        IF fan_mode_is_available(mode) = "true" THEN [r EXCEPT !.m = SetBoth(r.m, v)]
        ELSE r)

\* hwmon_write_auto without the test of the two cached states: every Auto
\* write commits
hwmon_write_auto_each(m) ==
    set_if_available(set_cooler_boost(m, FALSE).m, FM_AUTO_NAME)

\* the case PWM_ENABLE_AUTO
hwmon_write_auto(m) ==
    Bind(set_cooler_boost(m, FALSE), LAMBDA cb :
        IF /\ m.virtual_hwmon_pwm_enable[1] = PWM_ENABLE_AUTO
           /\ m.virtual_hwmon_pwm_enable[0] = PWM_ENABLE_AUTO
        THEN set_if_available(cb.m, FM_AUTO_NAME)
        ELSE [res |-> cb.res, oops |-> FALSE, m |-> cb.m])

\* hwmon_write_full going on to set_fan_mode(FM_AUTO_NAME)
hwmon_write_full_then_auto(m) ==
    IF conf.cooler_boost.address # MSI_EC_ADDR_UNSUPP
    THEN Bind(set_if_available(set_cooler_boost(m, TRUE).m, FM_AUTO_NAME), LAMBDA r :
             [r EXCEPT !.m = SetBoth(r.m, PWM_ENABLE_FULL)])
    ELSE [res |-> -EINVAL, oops |-> FALSE, m |-> m]

\* hwmon_write_full caching Full for the written channel only
hwmon_write_full_one_channel(m) ==
    IF conf.cooler_boost.address # MSI_EC_ADDR_UNSUPP
    THEN Bind(set_cooler_boost(m, TRUE), LAMBDA cb :
             [res |-> cb.res, oops |-> FALSE, m |-> cb.m])
    ELSE [res |-> -EINVAL, oops |-> FALSE, m |-> m]

\* the case PWM_ENABLE_FULL
hwmon_write_full(m) ==
    IF conf.cooler_boost.address # MSI_EC_ADDR_UNSUPP
    THEN Bind(set_cooler_boost(m, TRUE), LAMBDA cb :
             [res |-> cb.res, oops |-> FALSE, m |-> SetBoth(cb.m, PWM_ENABLE_FULL)])
    ELSE [res |-> -EINVAL, oops |-> FALSE, m |-> m]

\* virtual_hwmon_pwm_enable[channel] = val; switch (val) { ... }
hwmon_write_switch(m, val) ==
    CASE val = PWM_ENABLE_FULL -> hwmon_write_full(m)
      [] val = PWM_ENABLE_MANUAL ->
           hwmon_write_named(m, FM_ADVANCED_NAME, PWM_ENABLE_MANUAL)
      [] val = PWM_ENABLE_AUTO -> hwmon_write_auto(m)
      [] val = PWM_ENABLE_SILENT ->
           hwmon_write_named(m, FM_SILENT_NAME, PWM_ENABLE_SILENT)
      [] val = PWM_ENABLE_BASIC ->
           hwmon_write_named(m, FM_BASIC_NAME, PWM_ENABLE_BASIC)
      [] OTHER -> [res |-> -EINVAL, oops |-> FALSE, m |-> m]

\* msi_ec_hwmon_write(hwmon_pwm, hwmon_pwm_enable, channel, val)
msi_ec_hwmon_write(m, channel, val) ==
    hwmon_write_switch([m EXCEPT !.virtual_hwmon_pwm_enable[channel] = val], val)

\* the value a fan-mode name is reported as
PwmEnableOfName(mode_name) ==
    CASE mode_name = FM_ADVANCED_NAME -> PWM_ENABLE_MANUAL
      [] mode_name = FM_AUTO_NAME -> PWM_ENABLE_AUTO
      [] mode_name = FM_SILENT_NAME -> PWM_ENABLE_SILENT
      [] mode_name = FM_BASIC_NAME -> PWM_ENABLE_BASIC
      [] OTHER -> -1

\* the part of msi_ec_hwmon_read after the cooler-boost check
hwmon_read_mode(m) ==
    Bind(fan_mode_get(m), LAMBDA g :
        IF g.res < 0 THEN [res |-> g.res, oops |-> FALSE, val |-> <<>>, m |-> g.m]
        \* mode_name is still NULL when fan_mode_get() returned a raw value
        ELSE IF g.dst = NULL THEN [res |-> 0, oops |-> TRUE, val |-> <<>>, m |-> g.m]
        ELSE [res |-> 0, oops |-> FALSE, val |-> <<PwmEnableOfName(g.dst)>>,
              m |-> SetBoth(g.m, PwmEnableOfName(g.dst))])

\* msi_ec_hwmon_read(hwmon_pwm, hwmon_pwm_enable, channel, &val)
msi_ec_hwmon_read(m, channel) ==
    IF m.virtual_hwmon_pwm_enable[channel] >= 0
    THEN [res |-> 0, oops |-> FALSE, val |-> <<m.virtual_hwmon_pwm_enable[channel]>>, m |-> m]
    ELSE IF conf.cooler_boost.address = MSI_EC_ADDR_UNSUPP THEN hwmon_read_mode(m)
    ELSE Bind(ec_check_bit(m, conf.cooler_boost.address, conf.cooler_boost.bit),
              LAMBDA cb :
                  IF cb.res < 0
                  THEN [res |-> cb.res, oops |-> FALSE, val |-> <<>>, m |-> cb.m]
                  ELSE IF cb.output
                  THEN [res |-> 0, oops |-> FALSE, val |-> <<PWM_ENABLE_FULL>>,
                        m |-> SetBoth(cb.m, PWM_ENABLE_FULL)]
                  ELSE hwmon_read_mode(cb.m))

----------------------------------------------------------------------------
(* Curve text protocol codec.  A text is a sequence of characters. *)

DigitChars == <<"0", "1", "2", "3", "4", "5", "6", "7", "8", "9">>

isdigit(c) == \E d \in 1..10 : DigitChars[d] = c

DigitValue(c) == (CHOOSE d \in 1..10 : DigitChars[d] = c) - 1

isspace(c) == c \in {" ", "\n", "\t"}

\* sprintf("%d", n) for n >= 0
RECURSIVE Decimal(_)
Decimal(n) ==
    IF n < 10 THEN <<DigitChars[n + 1]>>
    ELSE Decimal(n \div 10) \o <<DigitChars[(n % 10) + 1]>>

\* the loop of print_curve from token j on: speeds at even j, temperatures at
\* odd j, each followed by a space
RECURSIVE print_curve_from(_, _, _, _)
print_curve_from(fan_speed_buf, temperature_buf, j, sz) ==
    IF j >= sz THEN <<>>
    ELSE (IF j % 2 = 0 THEN Decimal(fan_speed_buf[j \div 2])
                       ELSE Decimal(temperature_buf[j \div 2]))
         \o <<" ">> \o print_curve_from(fan_speed_buf, temperature_buf, j + 1, sz)

\* print_curve leaving the space that follows the last token
print_curve_keep_space(fan_speed_buf, temperature_buf, entries) ==
    print_curve_from(fan_speed_buf, temperature_buf, 0, 2 * entries - 1) \o <<"\n">>

\* print_curve: the last space is cut and sysfs_emit appends a newline
print_curve(fan_speed_buf, temperature_buf, entries) ==
    LET str == print_curve_from(fan_speed_buf, temperature_buf, 0, 2 * entries - 1)
    IN  SubSeq(str, 1, Len(str) - 1) \o <<"\n">>

\* an unsigned 32-bit value kept as two 16-bit halves
U32(hi, lo) == [hi |-> hi, lo |-> lo]

\* (acc * 10 + d) mod 2^32
U32MulAdd(acc, d) ==
    LET lo == acc.lo * 10 + d
    IN  U32((acc.hi * 10 + lo \div 65536) % 65536, lo % 65536)

\* the value read as `int`: data[i] >= 256
IntGE256(x) == x.hi < 32768 /\ (x.hi > 0 \/ x.lo >= 256)

\* (u8)data[j]
U8OfInt(x) == x.lo % 256

RECURSIVE skip_spaces(_, _)
skip_spaces(buf, p) ==
    IF p <= Len(buf) /\ isspace(buf[p]) THEN skip_spaces(buf, p + 1) ELSE p

RECURSIVE simple_strtoull(_, _, _)
simple_strtoull(buf, p, acc) ==
    IF p <= Len(buf) /\ isdigit(buf[p])
    THEN simple_strtoull(buf, p + 1, U32MulAdd(acc, DigitValue(buf[p])))
    ELSE [val |-> acc, next |-> p]

\* sscanf(sdata, "%u%n", &data[i], &offset) with sdata = buf + (p - 1):
\* white space is skipped, then at least one digit is needed
sscanf_u(buf, p) ==
    LET q == skip_spaces(buf, p)
        r == simple_strtoull(buf, q, U32(0, 0))
    IN  IF q <= Len(buf) /\ isdigit(buf[q])
        THEN [n |-> 1, val |-> r.val, next |-> r.next]
        ELSE [n |-> 0, val |-> U32(0, 0), next |-> p]

\* the token loop of read_curve: data so far, sdata at position p
RECURSIVE read_tokens(_, _, _, _)
read_tokens(buf, p, data, sz) ==
    IF Len(data) >= sz THEN [ok |-> TRUE, data |-> data, next |-> p]
    ELSE IF p > Len(buf) THEN [ok |-> FALSE, data |-> data, next |-> p]
    ELSE LET s == sscanf_u(buf, p)
         IN  IF s.n # 1 THEN [ok |-> FALSE, data |-> data, next |-> p]
             ELSE IF IntGE256(s.val) THEN [ok |-> FALSE, data |-> data, next |-> p]
             ELSE read_tokens(buf, s.next, Append(data, s.val), sz)

\* temperatures strictly increasing from late_temp = 0 and <= 100
TemperaturesValid(temp, entries) ==
    \A i \in 0..(entries - 2) :
        /\ (IF i = 0 THEN 0 ELSE temp[i - 1]) < temp[i]
        /\ temp[i] <= 100

SpeedsValid(speed, entries) == \A i \in 0..(entries - 1) : speed[i] <= 150

\* read_curve(fan_speed_buf, temperature_buf, entries, buf, count); garbage
\* is what the never-assigned slots of temp_temperature_buf hold
read_curve(m, fan_speed_buf, temperature_buf, entries, buf, garbage) ==
    LET sz == 2 * entries - 1
        t == read_tokens(buf, 1, <<>>, sz)
        sdata == IF t.next <= Len(buf) /\ buf[t.next] = "\n" THEN t.next + 1 ELSE t.next
        temp_speed_buf == [k \in 0..(CURVE_MAX_ENTRIES - 1) |->
                              IF 2 * k < sz THEN U8OfInt(t.data[2 * k + 1]) ELSE garbage]
        temp_temperature_buf == [k \in 0..(CURVE_MAX_ENTRIES - 1) |->
                              IF 2 * k + 1 < sz THEN U8OfInt(t.data[2 * k + 2]) ELSE garbage]
    IN  IF ~ t.ok THEN [res |-> -EINVAL, m |-> m]
        ELSE IF sdata # Len(buf) + 1 THEN [res |-> -EINVAL, m |-> m]
        ELSE IF ~ TemperaturesValid(temp_temperature_buf, entries)
             THEN [res |-> -EINVAL, m |-> m]
        ELSE IF ~ SpeedsValid(temp_speed_buf, entries) THEN [res |-> -EINVAL, m |-> m]
        ELSE [res |-> Len(buf),
              m |-> [m EXCEPT
                 ![fan_speed_buf[1]][fan_speed_buf[2]] =
                     [k \in 0..(CURVE_MAX_ENTRIES - 1) |->
                         IF k < entries THEN temp_speed_buf[k] ELSE @[k]],
                 ![temperature_buf[1]][temperature_buf[2]] =
                     [k \in 0..(CURVE_MAX_ENTRIES - 1) |->
                         IF k < entries THEN temp_temperature_buf[k] ELSE @[k]]]]

----------------------------------------------------------------------------
(* Curve attributes *)

curve_show(m, curve_data) ==
    Bind(sync_ec_curve_safe(m, curve_data.curve,
                            curve_data.curve_fan_speed, curve_data.curve_temp),
         LAMBDA s :
             IF s.res < 0 THEN [res |-> s.res, out |-> <<>>, m |-> s.m]
             ELSE Bind(print_curve(Deref(s.m, curve_data.curve_fan_speed),
                                   Deref(s.m, curve_data.curve_temp),
                                   curve_data.curve.entries_count),
                       LAMBDA out : [res |-> Len(out), out |-> out, m |-> s.m]))

\* curve_store going on to the push when read_curve failed
curve_store_push_anyway(m, curve_data, buf, garbage) ==
    Bind(read_curve(m, curve_data.curve_fan_speed, curve_data.curve_temp,
                    conf.cpu.fan_curve.entries_count, buf, garbage),
         LAMBDA r :
             Bind(push_ec_curve_safe(r.m, curve_data.curve,
                                     curve_data.curve_fan_speed,
                                     curve_data.curve_temp),
                  LAMBDA p : IF r.res < 0 THEN [res |-> r.res, m |-> p.m]
                             ELSE IF p.res < 0 THEN p
                             ELSE [res |-> r.res, m |-> p.m]))

\* the token count is always that of the cpu curve
curve_store(m, curve_data, buf, garbage) ==
    Bind(read_curve(m, curve_data.curve_fan_speed, curve_data.curve_temp,
                    conf.cpu.fan_curve.entries_count, buf, garbage),
         LAMBDA r :
             IF r.res < 0 THEN r
             ELSE Bind(push_ec_curve_safe(r.m, curve_data.curve,
                                          curve_data.curve_fan_speed,
                                          curve_data.curve_temp),
                       LAMBDA p : IF p.res < 0 THEN p ELSE [res |-> r.res, m |-> p.m]))

\* CopyDefault the other way round: default[i] = active[i]
CopyDefault_reversed(m, curve_data) ==
    [m EXCEPT ![curve_data.curve_fan_speed_default[1]][curve_data.curve_fan_speed_default[2]] =
                  Deref(m, curve_data.curve_fan_speed),
              ![curve_data.curve_temp_default[1]][curve_data.curve_temp_default[2]] =
                  Deref(m, curve_data.curve_temp)]

\* for (i = 0; i < CURVE_MAX_ENTRIES; i++) { active[i] = default[i]; }
CopyDefault(m, curve_data) ==
    [m EXCEPT ![curve_data.curve_fan_speed[1]][curve_data.curve_fan_speed[2]] =
                  Deref(m, curve_data.curve_fan_speed_default),
              ![curve_data.curve_temp[1]][curve_data.curve_temp[2]] =
                  Deref(m, curve_data.curve_temp_default)]

\* curve_init pulling with sync_ec_curve_safe: nothing is read unless the
\* fan mode is advanced
curve_init_safe_pull(m, curve_data) ==
    IF is_curve_allowed(curve_data.curve)
    THEN Bind(sync_ec_curve_safe(m, curve_data.curve, curve_data.curve_fan_speed_default,
                                 curve_data.curve_temp_default),
              LAMBDA s : IF s.res < 0 THEN s
                         ELSE [res |-> 0, m |-> CopyDefault(s.m, curve_data)])
    ELSE [res |-> 0, m |-> m]

curve_init(m, curve_data) ==
    IF is_curve_allowed(curve_data.curve)
    THEN Bind(sync_ec_curve(m, curve_data.curve, curve_data.curve_fan_speed_default,
                            curve_data.curve_temp_default),
              LAMBDA s : IF s.res < 0 THEN s
                         ELSE [res |-> 0, m |-> CopyDefault(s.m, curve_data)])
    ELSE [res |-> 0, m |-> m]

\* curve_destroy pushing the active buffers back instead of the default ones
curve_destroy_push_active(m, curve_data) ==
    IF is_curve_allowed(curve_data.curve)
    THEN Bind(push_ec_curve(m, curve_data.curve, curve_data.curve_fan_speed,
                            curve_data.curve_temp),
              LAMBDA p : IF p.res < 0 THEN p
                         ELSE [res |-> 0, m |-> CopyDefault(p.m, curve_data)])
    ELSE [res |-> 0, m |-> m]

curve_destroy(m, curve_data) ==
    IF is_curve_allowed(curve_data.curve)
    THEN Bind(push_ec_curve(m, curve_data.curve, curve_data.curve_fan_speed_default,
                            curve_data.curve_temp_default),
              LAMBDA p : IF p.res < 0 THEN p
                         ELSE [res |-> 0, m |-> CopyDefault(p.m, curve_data)])
    ELSE [res |-> 0, m |-> m]

\* max_speed > 0 ? max_speed : 100
MaxSpeedOf(curve) == IF curve.max_speed > 0 THEN curve.max_speed ELSE 100

\* curve_attr_show of the attribute (fan, point, is_pwm): value is a u8
curve_attr_show(m, fan, point, is_pwm) ==
    LET conf_curve == IF fan = 0 THEN conf.cpu.fan_curve ELSE conf.gpu.fan_curve
        curve_data == curve_pack(fan)
    IN  IF is_pwm
        THEN IF point < 1 \/ point > conf_curve.entries_count
             THEN [res |-> -EINVAL, out |-> <<>>, m |-> m]
             ELSE [res |-> 0, m |-> m,
                   out |-> <<U8((Deref(m, curve_data.curve_fan_speed)[point - 1] * 255)
                                \div MaxSpeedOf(conf_curve))>>]
        ELSE IF point < 1 \/ point >= conf_curve.entries_count
             THEN [res |-> -EINVAL, out |-> <<>>, m |-> m]
             ELSE [res |-> 0, m |-> m,
                   out |-> <<Deref(m, curve_data.curve_temp)[point - 1]>>]

\* curve_attr_store keeping the duty as it is written, unscaled
curve_attr_store_unscaled(m, fan, point, is_pwm, parsed, count) ==
    LET curve_data == curve_pack(fan)
        fan_speed_buf == curve_data.curve_fan_speed
        temp_buf == curve_data.curve_temp
        val == parsed.val
    IN  IF parsed.ret < 0 THEN [res |-> parsed.ret, m |-> m]
        ELSE IF is_pwm /\ (point < 1 \/ point > curve_data.curve.entries_count)
             THEN [res |-> -EINVAL, m |-> m]
        ELSE IF is_pwm /\ val > 255 THEN [res |-> -EINVAL, m |-> m]
        ELSE IF ~ is_pwm /\ (point < 1 \/ point >= curve_data.curve.entries_count)
             THEN [res |-> -EINVAL, m |-> m]
        ELSE IF ~ is_pwm /\ val > 100 THEN [res |-> -EINVAL, m |-> m]
        ELSE Bind(push_ec_curve_safe(
                      IF is_pwm
                      THEN [m EXCEPT ![fan_speed_buf[1]][fan_speed_buf[2]][point - 1] = U8(val)]
                      ELSE [m EXCEPT ![temp_buf[1]][temp_buf[2]][point - 1] = U8(val)],
                      curve_data.curve, fan_speed_buf, temp_buf),
                  LAMBDA p : IF p.res < 0 THEN p ELSE [res |-> count, m |-> p.m])

\* curve_attr_store taking a temperature of any size
curve_attr_store_any_temperature(m, fan, point, is_pwm, parsed, count) ==
    LET curve_data == curve_pack(fan)
        fan_speed_buf == curve_data.curve_fan_speed
        temp_buf == curve_data.curve_temp
        val == parsed.val
    IN  IF parsed.ret < 0 THEN [res |-> parsed.ret, m |-> m]
        ELSE IF is_pwm /\ (point < 1 \/ point > curve_data.curve.entries_count)
             THEN [res |-> -EINVAL, m |-> m]
        ELSE IF is_pwm /\ val > 255 THEN [res |-> -EINVAL, m |-> m]
        ELSE IF ~ is_pwm /\ (point < 1 \/ point >= curve_data.curve.entries_count)
             THEN [res |-> -EINVAL, m |-> m]
        ELSE Bind(push_ec_curve_safe(
                      IF is_pwm
                      THEN [m EXCEPT ![fan_speed_buf[1]][fan_speed_buf[2]][point - 1] =
                                U8((val * MaxSpeedOf(curve_data.curve)) \div 255)]
                      ELSE [m EXCEPT ![temp_buf[1]][temp_buf[2]][point - 1] = U8(val)],
                      curve_data.curve, fan_speed_buf, temp_buf),
                  LAMBDA p : IF p.res < 0 THEN p ELSE [res |-> count, m |-> p.m])

\* curve_attr_store of the attribute (fan, point, is_pwm); parsed is what
\* kstrtoul(buf, 10, &val) gave: its return value and val; count = strlen(buf)
curve_attr_store(m, fan, point, is_pwm, parsed, count) ==
    LET curve_data == curve_pack(fan)
        fan_speed_buf == curve_data.curve_fan_speed
        temp_buf == curve_data.curve_temp
        val == parsed.val
    IN  IF parsed.ret < 0 THEN [res |-> parsed.ret, m |-> m]
        ELSE IF is_pwm /\ (point < 1 \/ point > curve_data.curve.entries_count)
             THEN [res |-> -EINVAL, m |-> m]
        ELSE IF is_pwm /\ val > 255 THEN [res |-> -EINVAL, m |-> m]
        ELSE IF ~ is_pwm /\ (point < 1 \/ point >= curve_data.curve.entries_count)
             THEN [res |-> -EINVAL, m |-> m]
        ELSE IF ~ is_pwm /\ val > 100 THEN [res |-> -EINVAL, m |-> m]
        ELSE Bind(push_ec_curve_safe(
                      IF is_pwm
                      THEN [m EXCEPT ![fan_speed_buf[1]][fan_speed_buf[2]][point - 1] =
                                U8((val * MaxSpeedOf(curve_data.curve)) \div 255)]
                      ELSE [m EXCEPT ![temp_buf[1]][temp_buf[2]][point - 1] = U8(val)],
                      curve_data.curve, fan_speed_buf, temp_buf),
                  LAMBDA p : IF p.res < 0 THEN p ELSE [res |-> count, m |-> p.m])

\* the attributes create_fan_curve_attrs makes: <<fan, point, is_pwm>>
curve_attrs ==
    {<<0, i, TRUE>> : i \in 1..conf.cpu.fan_curve.entries_count}
    \cup {<<0, i, FALSE>> : i \in 1..(conf.cpu.fan_curve.entries_count - 1)}
    \cup {<<1, i, TRUE>> : i \in 1..conf.gpu.fan_curve.entries_count}
    \cup {<<1, i, FALSE>> : i \in 1..(conf.gpu.fan_curve.entries_count - 1)}

\* pwm_enable_available_show: the values listed, in output order
pwm_enable_available_show ==
    LET named(n) == \E i \in NamedModes : conf.fan_mode.modes[i].name = n
        listed(v) == CASE v = 0 -> conf.cooler_boost.address # MSI_EC_ADDR_UNSUPP
                       [] v = 1 -> named(FM_ADVANCED_NAME)
                       [] v = 2 -> named(FM_AUTO_NAME)
                       [] v = 3 -> named(FM_SILENT_NAME)
                       [] v = 4 -> named(FM_BASIC_NAME)
    IN  SelectSeq(<<0, 1, 2, 3, 4>>, listed)

----------------------------------------------------------------------------
(* Module load and unload *)

\* match_string(array, 1, string): only the first entry is looked at
match_string_first_only(array, string) ==
    IF Len(array) >= 1 /\ array[1] = string THEN 0 ELSE -EINVAL

\* match_string(array, -1, string): index of the first equal entry
match_string(array, string) ==
    IF \E i \in 1..Len(array) : array[i] = string
    THEN First({i \in 1..Len(array) : array[i] = string}) - 1
    ELSE -EINVAL

\* ec_read_seq(addr, buf, len), the bytes read being kept elsewhere
RECURSIVE ec_read_seq(_, _, _, _)
ec_read_seq(m, addr, i, len) ==
    IF i >= len THEN [res |-> 0, m |-> m]
    ELSE Bind(ec_read(m, addr + i), LAMBDA r :
             IF r.res < 0 THEN [res |-> r.res, m |-> r.m]
             ELSE ec_read_seq(r.m, addr, i + 1, len))

\* the version string is the content of the EC at MSI_EC_FW_VERSION_ADDRESS
ec_get_firmware_version(m) ==
    Bind(ec_read_seq(m, MSI_EC_FW_VERSION_ADDRESS, 0, MSI_EC_FW_VERSION_LENGTH),
         LAMBDA r :
             IF r.res < 0 THEN [res |-> r.res, buf |-> NULL, m |-> r.m]
             ELSE [res |-> MSI_EC_FW_VERSION_LENGTH + 1, buf |-> ec_fw_version, m |-> r.m])

\* load_configuration(): the resulting conf and conf_loaded
\* the profiles of CONFIGURATIONS whose allowed_fw holds ver
ConfsAllowing(ver) ==
    {i \in 1..Len(CONFIGURATIONS) :
        match_string(CONFIGURATIONS[i].allowed_fw, ver) # -EINVAL}

\* load_configuration marking the configuration loaded in debug mode although
\* no profile matched
load_configuration_debug_loaded(m) ==
    Bind(IF firmware # NULL THEN [res |-> 0, buf |-> firmware, m |-> m]
         ELSE ec_get_firmware_version(m),
         LAMBDA v :
             IF v.res < 0
             THEN [res |-> v.res, conf |-> conf, conf_loaded |-> conf_loaded, m |-> v.m]
             ELSE IF ConfsAllowing(v.buf) # {}
             THEN [res |-> 0, conf_loaded |-> TRUE, m |-> v.m,
                   conf |-> [CONFIGURATIONS[First(ConfsAllowing(v.buf))]
                                EXCEPT !.allowed_fw = <<>>]]
             ELSE IF debug
             THEN [res |-> 0, conf |-> conf, conf_loaded |-> TRUE, m |-> v.m]
             ELSE [res |-> -EOPNOTSUPP, conf |-> conf, conf_loaded |-> conf_loaded,
                   m |-> v.m])

load_configuration(m) ==
    Bind(IF firmware # NULL THEN [res |-> 0, buf |-> firmware, m |-> m]
         ELSE ec_get_firmware_version(m),
         LAMBDA v :
             IF v.res < 0
             THEN [res |-> v.res, conf |-> conf, conf_loaded |-> conf_loaded, m |-> v.m]
             ELSE IF ConfsAllowing(v.buf) # {}
             THEN [res |-> 0, conf_loaded |-> TRUE, m |-> v.m,
                   conf |-> [CONFIGURATIONS[First(ConfsAllowing(v.buf))]
                                EXCEPT !.allowed_fw = <<>>]]
             ELSE IF debug
             THEN [res |-> 0, conf |-> conf, conf_loaded |-> conf_loaded, m |-> v.m]
             ELSE [res |-> -EOPNOTSUPP, conf |-> conf, conf_loaded |-> conf_loaded,
                   m |-> v.m])

msi_platform_probe(m) ==
    Bind(curve_init(m, curve_pack(0)), LAMBDA c :
        IF c.res < 0 THEN c ELSE curve_init(c.m, curve_pack(1)))

\* the curve part of msi_ec_exit: both results are dropped
msi_ec_exit(m) ==
    [res |-> 0, m |-> curve_destroy(curve_destroy(m, curve_pack(0)).m, curve_pack(1)).m]

\* msi_ec_is_visible for an attribute that stands on the register at address
msi_ec_is_visible(address) ==
    IF ~ conf_loaded THEN FALSE ELSE address # MSI_EC_ADDR_UNSUPP

----------------------------------------------------------------------------
(* Inputs of the model *)

\* which access of a handler the bus fails (0: none)
FailChoices == 0..MaxFailAt

NoFail == {0}

\* a version string no profile lists
UnknownFirmware == "0000EMS1.000"

\* every version string some profile lists
KnownFirmware ==
    UNION {{CONFIGURATIONS[i].allowed_fw[k] : k \in 1..Len(CONFIGURATIONS[i].allowed_fw)} :
              i \in 1..Len(CONFIGURATIONS)}

\* version strings the PWM specification starts from, with `debug`: CONF401,
\* CONF0 (all four modes named) and no profile at all
StartUps ==
    {<<ConfNamed("CONF401").allowed_fw[1], FALSE>>, <<ConfNamed("CONF0").allowed_fw[1], FALSE>>,
     <<UnknownFirmware, TRUE>>}

\* EC addresses the engine can touch
ECAddrs ==
    {0, U8(MSI_EC_ADDR_UNSUPP), 152, 212, 244}
    \cup {MSI_EC_FW_VERSION_ADDRESS + i : i \in 0..(MSI_EC_FW_VERSION_LENGTH - 1)}
    \cup {ConfNamed("CONF401").cpu.fan_curve.speed_start_address + i : i \in 0..(CurveEntries - 1)}
    \cup {ConfNamed("CONF401").cpu.fan_curve.temperature_start_address + i : i \in 0..(CurveEntries - 2)}
    \cup {ConfNamed("CONF401").gpu.fan_curve.speed_start_address + i : i \in 0..(CurveEntries - 1)}
    \cup {ConfNamed("CONF401").gpu.fan_curve.temperature_start_address + i : i \in 0..(CurveEntries - 2)}

\* values the fan-mode register may hold when the driver loads
FanModeRegAtLoad == {0, 128, 13, 141}

\* values of the cooler-boost register when the driver loads (0x02 || 0x82)
CoolerBoostRegAtLoad == {2, 130}

\* the curve the firmware keeps in the EC for each fan when the driver loads
FactorySpeed(fan, i) == 30 + 10 * i + 5 * fan

FactoryTemp(fan, i) == 50 + 5 * i + fan

\* the register file at load time
ECAtLoad(fm, cb) ==
    [a \in ECAddrs |->
        CASE a \in {212, 244} -> fm
          [] a = 152 -> cb
          [] \E i \in 0..(CurveEntries - 1) :
                 a = ConfNamed("CONF401").cpu.fan_curve.speed_start_address + i ->
               FactorySpeed(0, a - ConfNamed("CONF401").cpu.fan_curve.speed_start_address)
          [] \E i \in 0..(CurveEntries - 2) :
                 a = ConfNamed("CONF401").cpu.fan_curve.temperature_start_address + i ->
               FactoryTemp(0, a - ConfNamed("CONF401").cpu.fan_curve.temperature_start_address)
          [] \E i \in 0..(CurveEntries - 1) :
                 a = ConfNamed("CONF401").gpu.fan_curve.speed_start_address + i ->
               FactorySpeed(1, a - ConfNamed("CONF401").gpu.fan_curve.speed_start_address)
          [] \E i \in 0..(CurveEntries - 2) :
                 a = ConfNamed("CONF401").gpu.fan_curve.temperature_start_address + i ->
               FactoryTemp(1, a - ConfNamed("CONF401").gpu.fan_curve.temperature_start_address)
          [] OTHER -> 0]

\* a text of decimal tokens separated by single spaces
RECURSIVE TextOf(_)
TextOf(tokens) ==
    IF tokens = <<>> THEN <<>>
    ELSE IF Len(tokens) = 1 THEN Decimal(tokens[1])
    ELSE Decimal(tokens[1]) \o <<" ">> \o TextOf(Tail(tokens))

\* a valid custom curve of the cpu curve's size
CustomTokens ==
    [j \in 1..(2 * CurveEntries - 1) |-> IF j % 2 = 1 THEN 10 + 5 * j ELSE 40 + 5 * j]

\* texts written to the curve attributes
CurveTexts ==
    {TextOf(CustomTokens),
     TextOf(CustomTokens) \o <<"\n">>,
     TextOf(CustomTokens) \o <<" ", "x">>,
     TextOf(SubSeq(CustomTokens, 1, 2 * CurveEntries - 2)),
     TextOf(CustomTokens \o <<7>>),
     TextOf([CustomTokens EXCEPT ![1] = 256]),
     TextOf([CustomTokens EXCEPT ![1] = 151]),
     TextOf([CustomTokens EXCEPT ![2] = 101]),
     TextOf([CustomTokens EXCEPT ![2] = 0]),
     TextOf([CustomTokens EXCEPT ![2 * CurveEntries - 2] = CustomTokens[2]])}

\* the texts among them the behaviours of Spec write
StoreTexts ==
    {TextOf(CustomTokens) \o <<"\n">>, TextOf([CustomTokens EXCEPT ![2] = 101])}

\* what the never-assigned stack slots of read_curve may hold
GarbageBytes == {0, 255}

\* texts written to the fan_mode attribute
FanModeTexts == {"auto", "silent", "basic", "advanced\n", "turbo"}

\* values written to pwmN_enable
PwmEnableValues == 0..5

\* what kstrtoul makes of the texts written to a curve point attribute
PointInputs ==
    {[ret |-> 0, val |-> 100], [ret |-> 0, val |-> 101],
     [ret |-> 0, val |-> 255], [ret |-> 0, val |-> 256],
     [ret |-> -EINVAL, val |-> 0]}

\* the point attributes the behaviours of Spec write, and what they write
StorePoints == {<<0, 1, FALSE>>, <<0, CurveEntries, TRUE>>, <<1, 1, TRUE>>}

StoreInputs == {[ret |-> 0, val |-> 100], [ret |-> 0, val |-> 256]}

----------------------------------------------------------------------------
(* The state machine *)

\* a request in flight: the handler it runs, the statement it stands at, the
\* fan or channel and the register index of its loop, and how many times it
\* has called set_fan_mode or written the fan-mode register
Request(op, pc, fan, i, wrote) ==
    [op |-> op, pc |-> pc, fan |-> fan, i |-> i, wrote |-> wrote]

ZeroBuffers == [fan \in 0..1 |-> [i \in 0..(CURVE_MAX_ENTRIES - 1) |-> 0]]

InitWith(fw_param, fw_ec, dbg, fm, cb) ==
    /\ phase = "unloaded"
    /\ firmware = fw_param
    /\ ec_fw_version = fw_ec
    /\ debug = dbg
    /\ conf_loaded = FALSE
    /\ conf = CONF_ZERO
    /\ ec = ECAtLoad(fm, cb)
    /\ curve_temp = ZeroBuffers
    /\ curve_fan_speed = ZeroBuffers
    /\ curve_temp_default = ZeroBuffers
    /\ curve_fan_speed_default = ZeroBuffers
    /\ virtual_hwmon_pwm_enable = [c \in 0..1 |-> -1]
    /\ threads = [t \in 0..1 |-> Request("none", "done", 0, 0, 0)]

\* the effect of a handler that ran to r: its machine becomes the state
Commit(r) ==
    /\ ec' = r.m.ec
    /\ curve_temp' = r.m.curve_temp
    /\ curve_fan_speed' = r.m.curve_fan_speed
    /\ curve_temp_default' = r.m.curve_temp_default
    /\ curve_fan_speed_default' = r.m.curve_fan_speed_default
    /\ virtual_hwmon_pwm_enable' = r.m.virtual_hwmon_pwm_enable
    /\ UNCHANGED threads

\* the machine a handler left, as the next handler finds it
Fresh(m) == [m EXCEPT !.io = <<>>, !.failAt = 0]

\* the attributes exist once the module is loaded with a configuration
Running == phase = "running" /\ conf_loaded

\* msi_ec_init up to platform_create_bundle
LoadConfiguration(fails) ==
    /\ phase = "unloaded"
    /\ \E f \in fails :
         LET r == load_configuration(Machine(f))
         IN  /\ conf' = r.conf
             /\ conf_loaded' = r.conf_loaded
             /\ phase' = IF r.res < 0 THEN "failed" ELSE "probing"
             /\ Commit(r)
    /\ UNCHANGED <<firmware, debug, ec_fw_version>>

\* the probe callback and the rest of msi_ec_init
PlatformProbe(fails) ==
    /\ phase = "probing"
    /\ \E f \in fails :
         LET r == msi_platform_probe(Machine(f))
         IN  /\ phase' = IF r.res < 0 THEN "failed" ELSE "running"
             /\ Commit(r)
    /\ UNCHANGED <<firmware, debug, ec_fw_version, conf, conf_loaded>>

ModuleExit(fails) ==
    /\ phase = "running"
    /\ \E f \in fails : Commit(msi_ec_exit(Machine(f)))
    /\ phase' = "exited"
    /\ UNCHANGED <<firmware, debug, ec_fw_version, conf, conf_loaded>>

FanModeShow(fails) ==
    /\ Running
    /\ \E f \in fails : Commit(fan_mode_show(Machine(f)))
    /\ UNCHANGED <<phase, firmware, debug, ec_fw_version, conf, conf_loaded>>

FanModeStore(texts, fails) ==
    /\ Running
    /\ \E buf \in texts, f \in fails : Commit(fan_mode_store(Machine(f), buf))
    /\ UNCHANGED <<phase, firmware, debug, ec_fw_version, conf, conf_loaded>>

HwmonRead(fails) ==
    /\ Running
    /\ \E channel \in 0..1, f \in fails : Commit(msi_ec_hwmon_read(Machine(f), channel))
    /\ UNCHANGED <<phase, firmware, debug, ec_fw_version, conf, conf_loaded>>

HwmonWrite(vals, fails) ==
    /\ Running
    /\ \E channel \in 0..1, val \in vals, f \in fails :
         Commit(msi_ec_hwmon_write(Machine(f), channel, val))
    /\ UNCHANGED <<phase, firmware, debug, ec_fw_version, conf, conf_loaded>>

PwmEnableAvailableShow ==
    /\ Running
    /\ pwm_enable_available_show \in Seq(0..4)
    /\ UNCHANGED vars

CurveShow ==
    /\ Running
    /\ \E fan \in 0..1 : Commit(curve_show(Machine(0), curve_pack(fan)))
    /\ UNCHANGED <<phase, firmware, debug, ec_fw_version, conf, conf_loaded>>

CurveStore(texts) ==
    /\ Running
    /\ \E fan \in 0..1, buf \in texts, g \in GarbageBytes :
         Commit(curve_store(Machine(0), curve_pack(fan), buf, g))
    /\ UNCHANGED <<phase, firmware, debug, ec_fw_version, conf, conf_loaded>>

\* the point attributes are created when the advanced mode is available
CurveAttrShow ==
    /\ Running
    /\ fan_mode_is_available(FM_ADVANCED_NAME) = "true"
    /\ \E a \in curve_attrs : Commit(curve_attr_show(Machine(0), a[1], a[2], a[3]))
    /\ UNCHANGED <<phase, firmware, debug, ec_fw_version, conf, conf_loaded>>

CurveAttrStore(points, inputs) ==
    /\ Running
    /\ fan_mode_is_available(FM_ADVANCED_NAME) = "true"
    /\ \E a \in points \cap curve_attrs, parsed \in inputs :
         Commit(curve_attr_store(Machine(0), a[1], a[2], a[3], parsed, 3))
    /\ UNCHANGED <<phase, firmware, debug, ec_fw_version, conf, conf_loaded>>

----------------------------------------------------------------------------
(* The engine on CONF401, the profile with fan curves: every handler, the  *)
(* bus never failing.                                                      *)

Init ==
    \E fm \in {0, 128, 13} :
        InitWith(NULL, ConfNamed("CONF401").allowed_fw[1], FALSE, fm, 2)

Next ==
    \/ LoadConfiguration(NoFail)
    \/ PlatformProbe(NoFail)
    \/ ModuleExit(NoFail)
    \/ FanModeShow(NoFail)
    \/ FanModeStore({"auto", "advanced\n"}, NoFail)
    \/ HwmonRead(NoFail)
    \/ HwmonWrite({PWM_ENABLE_MANUAL, PWM_ENABLE_AUTO, PWM_ENABLE_SILENT}, NoFail)
    \/ CurveShow
    \/ CurveStore(StoreTexts)
    \/ CurveAttrShow
    \/ CurveAttrStore(StorePoints, StoreInputs)

Spec == Init /\ [][Next]_vars

----------------------------------------------------------------------------
(* The fan-mode / PWM-enable machine on a profile with three modes, on one *)
(* with four and with no profile loaded, the bus failing at will.          *)

InitPwm ==
    \E s \in StartUps, fm \in FanModeRegAtLoad, cb \in CoolerBoostRegAtLoad :
        InitWith(NULL, s[1], s[2], fm, cb)

NextPwm ==
    \/ LoadConfiguration(FailChoices)
    \/ PlatformProbe(FailChoices)
    \/ ModuleExit(FailChoices)
    \/ FanModeShow(FailChoices)
    \/ FanModeStore(FanModeTexts, FailChoices)
    \/ HwmonRead(FailChoices)
    \/ HwmonWrite(PwmEnableValues, FailChoices)
    \/ PwmEnableAvailableShow

SpecPwm == InitPwm /\ [][NextPwm]_vars

----------------------------------------------------------------------------
(* Profile resolution: every version string, given by the EC or by the     *)
(* `firmware` parameter, with and without `debug`.                         *)

InitResolve ==
    \E v \in KnownFirmware \cup {UnknownFirmware}, dbg \in BOOLEAN, by_param \in BOOLEAN :
        InitWith(IF by_param THEN v ELSE NULL,
                 IF by_param THEN UnknownFirmware ELSE v, dbg, 0, 2)

NextResolve ==
    \/ LoadConfiguration({0, 1})
    \/ PlatformProbe(NoFail)
    \/ ModuleExit(NoFail)

SpecResolve == InitResolve /\ [][NextResolve]_vars

----------------------------------------------------------------------------
(* Observations the properties are stated with *)

\* the fans whose curve is usable and follows the ResetOnAuto strategy
ResetOnAutoFans ==
    {fan \in 0..(ALL_CURVES_COUNT - 1) :
        /\ curve_pack(fan).curve.apply_strategy = CURVE_APPLY_STRATEGY_RESET_ON_AUTO
        /\ is_curve_allowed(curve_pack(fan).curve)}

\* the meaningful entries of a pair of buffers: entries_count speeds and
\* entries_count - 1 temperatures
CurveOf(speed, temp, curve) ==
    [speed |-> [i \in 0..(curve.entries_count - 1) |-> speed[i]],
     temp  |-> [i \in 0..(curve.entries_count - 2) |-> temp[i]]]

\* the curve held by the EC registers of a fan
ECCurve(m, fan) ==
    LET curve == curve_pack(fan).curve
    IN  CurveOf([i \in 0..(CURVE_MAX_ENTRIES - 1) |->
                    IF i < curve.entries_count
                    THEN m.ec[U8(curve.speed_start_address + i)] ELSE 0],
                [i \in 0..(CURVE_MAX_ENTRIES - 1) |->
                    IF i < curve.entries_count - 1
                    THEN m.ec[U8(curve.temperature_start_address + i)] ELSE 0],
                curve)

ActiveCurve(m, fan) ==
    CurveOf(m.curve_fan_speed[fan], m.curve_temp[fan], curve_pack(fan).curve)

DefaultCurve(m, fan) ==
    CurveOf(m.curve_fan_speed_default[fan], m.curve_temp_default[fan],
            curve_pack(fan).curve)

\* the EC addresses of the curve registers of a fan
CurveAddrs(fan) ==
    LET curve == curve_pack(fan).curve
    IN  {U8(curve.speed_start_address + i) : i \in 0..(curve.entries_count - 1)}
        \cup {U8(curve.temperature_start_address + i) :
                 i \in 0..(curve.entries_count - 2)}

AllCurveAddrs == UNION {CurveAddrs(fan) : fan \in ResetOnAutoFans}

\* the accesses of a log that are writes, that failed, that touch addrs
Writes(io) == {k \in 1..Len(io) : io[k][1] = "w"}

Failed(io) == {k \in 1..Len(io) : ~ io[k][4]}

Touching(io, addrs) == {k \in 1..Len(io) : io[k][2] \in addrs}

\* the register value of a named fan mode of the configuration
ModeValue(name) == conf.fan_mode.modes[First(ModesNamed(name))].value

\* the four buffers of a machine
Buffers(m) ==
    <<m.curve_temp, m.curve_fan_speed, m.curve_temp_default, m.curve_fan_speed_default>>

\* a handler came back without an error
Went(r) == r.res >= 0 /\ ~ r.oops

\* the result of an attribute store, shaped like that of a PWM-enable write
AsWrite(r) == [res |-> IF r.res > 0 THEN 0 ELSE r.res, oops |-> FALSE, m |-> r.m]

\* entering manual mode: a PWM-enable Manual write on channel how (0, 1), or
\* the name "advanced" written to fan_mode (2)
EnterManual(m, how) ==
    IF how < 2 THEN msi_ec_hwmon_write(m, how, PWM_ENABLE_MANUAL)
    ELSE AsWrite(fan_mode_store(m, FM_ADVANCED_NAME))

\* leaving for auto, committed: PWM-enable Auto written on channel how and
\* then on the other one (0, 1), or the name "auto" written to fan_mode (2)
LeaveToAuto(m, how) ==
    IF how < 2
    THEN Bind(msi_ec_hwmon_write(m, how, PWM_ENABLE_AUTO), LAMBDA r :
             IF ~ Went(r) THEN r
             ELSE msi_ec_hwmon_write(Fresh(r.m), 1 - how, PWM_ENABLE_AUTO))
    ELSE AsWrite(fan_mode_store(m, FM_AUTO_NAME))

----------------------------------------------------------------------------
(* Properties of the PWM-enable machine (SpecPwm) *)

\* C1 (auto debounce): with both cached power states Manual, a PWM-enable
\* Auto write on one channel neither writes nor changes the fan-mode register;
\* the Auto write on the other channel that follows sets it to the auto value,
\* after which both channels read Auto.  And whatever the state, channel and
\* value, a PWM-enable write that puts the auto value into the fan-mode
\* register leaves both cached power states Auto.
AutoDebounce ==
    Running =>
      /\ (virtual_hwmon_pwm_enable = [c \in 0..1 |-> PWM_ENABLE_MANUAL]) =>
            \A ch \in 0..1 :
               LET r1 == msi_ec_hwmon_write(Machine(0), ch, PWM_ENABLE_AUTO)
                   r2 == msi_ec_hwmon_write(Fresh(r1.m), 1 - ch, PWM_ENABLE_AUTO)
               IN  /\ Went(r1)
                   /\ r1.m.ec[U8(conf.fan_mode.address)] = ec[U8(conf.fan_mode.address)]
                   /\ Writes(r1.m.io) \cap Touching(r1.m.io, {U8(conf.fan_mode.address)}) = {}
                   /\ Went(r2) =>
                        /\ r2.m.ec[U8(conf.fan_mode.address)] = ModeValue(FM_AUTO_NAME)
                        /\ \A c \in 0..1 :
                              msi_ec_hwmon_read(Fresh(r2.m), c).val = <<PWM_ENABLE_AUTO>>
      /\ \A ch \in 0..1, val \in PwmEnableValues, f \in FailChoices :
            LET r == msi_ec_hwmon_write(Machine(f), ch, val)
            IN  (\E k \in Writes(r.m.io) :
                    r.m.io[k] = <<"w", U8(conf.fan_mode.address),
                                  ModeValue(FM_AUTO_NAME), TRUE>>)
                => r.m.virtual_hwmon_pwm_enable = [c \in 0..1 |-> PWM_ENABLE_AUTO]

\* the debounced state: one channel cached Auto, the other still Manual, the
\* register still holding the advanced value, and the second Auto write
\* about to commit
WitAutoDebounce ==
    /\ Running
    /\ virtual_hwmon_pwm_enable = [c \in 0..1 |-> IF c = 0 THEN PWM_ENABLE_AUTO
                                                   ELSE PWM_ENABLE_MANUAL]
    /\ ec[U8(conf.fan_mode.address)] = ModeValue(FM_ADVANCED_NAME)
    /\ LET r == msi_ec_hwmon_write(Machine(0), 1, PWM_ENABLE_AUTO)
       IN  Went(r) /\ r.m.ec[U8(conf.fan_mode.address)] = ModeValue(FM_AUTO_NAME)

\* C2 (full): a PWM-enable Full write that returns success has set the
\* cooler-boost bit, and a read on either channel right after returns Full.
FullSetsCoolerBoost ==
    Running =>
      \A ch \in 0..1, f \in FailChoices :
         LET r == msi_ec_hwmon_write(Machine(f), ch, PWM_ENABLE_FULL)
         IN  (r.res = 0 /\ ~ r.oops) =>
               /\ TestBit(r.m.ec[U8(conf.cooler_boost.address)], conf.cooler_boost.bit)
               /\ \A c \in 0..1 :
                     LET d == msi_ec_hwmon_read(Fresh(r.m), c)
                     IN  d.res = 0 /\ ~ d.oops /\ d.val = <<PWM_ENABLE_FULL>>

\* cooler boost off, both channels cached Manual, and a Full write on
\* channel 0 that goes through
WitFullSetsCoolerBoost ==
    /\ Running
    /\ ~ TestBit(ec[U8(conf.cooler_boost.address)], conf.cooler_boost.bit)
    /\ virtual_hwmon_pwm_enable = [c \in 0..1 |-> PWM_ENABLE_MANUAL]
    /\ LET r == msi_ec_hwmon_write(Machine(0), 0, PWM_ENABLE_FULL)
       IN  /\ r.res = 0
           /\ TestBit(r.m.ec[U8(conf.cooler_boost.address)], conf.cooler_boost.bit)
           /\ msi_ec_hwmon_read(Fresh(r.m), 1).val = <<PWM_ENABLE_FULL>>

----------------------------------------------------------------------------
(* Properties of the curve engine (Spec) *)

\* C3 (ResetOnAuto round trip): from any running state, enter manual mode,
\* leave it for auto (committed) and enter manual mode again, every step
\* going through and no curve stored in between.  With C the active buffers
\* and D the default buffers at the first entry: in the auto state in between
\* the EC curve registers hold D and the fan-mode register the auto value, and
\* at the end the active buffers are C again and the EC curve registers hold C.
ResetOnAutoRoundTrip ==
    Running =>
      \A in1 \in 0..2 :
         LET r1 == EnterManual(Machine(0), in1)
         IN  Went(r1) =>
               /\ r1.m.curve_temp = curve_temp
               /\ r1.m.curve_fan_speed = curve_fan_speed
               /\ \A fan \in ResetOnAutoFans : ECCurve(r1.m, fan) = ActiveCurve(r1.m, fan)
               /\ \A out \in 0..2 :
                     LET r2 == LeaveToAuto(Fresh(r1.m), out)
                     IN  Went(r2) =>
                           /\ r2.m.ec[U8(conf.fan_mode.address)] = ModeValue(FM_AUTO_NAME)
                           /\ \A fan \in ResetOnAutoFans :
                                 ECCurve(r2.m, fan) = DefaultCurve(r1.m, fan)
                           /\ \A in2 \in 0..2 :
                                 LET r3 == EnterManual(Fresh(r2.m), in2)
                                 IN  Went(r3) =>
                                       /\ r3.m.curve_temp = r1.m.curve_temp
                                       /\ r3.m.curve_fan_speed = r1.m.curve_fan_speed
                                       /\ \A fan \in ResetOnAutoFans :
                                             ECCurve(r3.m, fan) = ActiveCurve(r1.m, fan)

\* a custom curve differing from the default one is active for the cpu fan,
\* and the round trip by PWM-enable writes goes through
WitResetOnAutoRoundTrip ==
    /\ Running
    /\ 0 \in ResetOnAutoFans
    /\ ActiveCurve(Machine(0), 0) # DefaultCurve(Machine(0), 0)
    /\ LET r1 == EnterManual(Machine(0), 0)
           r2 == LeaveToAuto(Fresh(r1.m), 1)
           r3 == EnterManual(Fresh(r2.m), 1)
       IN  /\ Went(r1) /\ Went(r2) /\ Went(r3)
           /\ ECCurve(r2.m, 0) = DefaultCurve(Machine(0), 0)
           /\ ECCurve(r3.m, 0) = ActiveCurve(Machine(0), 0)

\* the texts of CurveTexts that break a rule of the format: a token short, a
\* token more, trailing text, a token >= 256, a speed above the maximum, a
\* temperature above 100, temperatures not increasing
RejectedTexts ==
    {TextOf(SubSeq(CustomTokens, 1, 2 * CurveEntries - 2)),
     TextOf(CustomTokens \o <<7>>),
     TextOf(CustomTokens) \o <<" ", "x">>,
     TextOf([CustomTokens EXCEPT ![1] = 256]),
     TextOf([CustomTokens EXCEPT ![1] = 151]),
     TextOf([CustomTokens EXCEPT ![2] = 101]),
     TextOf([CustomTokens EXCEPT ![2 * CurveEntries - 2] = CustomTokens[2]])}

\* C4 (rejected store): a whole-curve store of a text that breaks the format
\* fails with -EINVAL, leaves every buffer as it was and writes nothing to
\* the EC.
RejectedStoreLeavesNoTrace ==
    Running =>
      \A fan \in 0..1, buf \in RejectedTexts, g \in GarbageBytes :
         LET r == curve_store(Machine(0), curve_pack(fan), buf, g)
         IN  /\ r.res = -EINVAL
             /\ Buffers(r.m) = Buffers(Machine(0))
             /\ r.m.ec = ec
             /\ Writes(r.m.io) = {}

\* manual mode, where an accepted store writes the curve registers, and a
\* rejected one on the cpu curve
WitRejectedStoreLeavesNoTrace ==
    /\ Running
    /\ ec[U8(conf.fan_mode.address)] = ModeValue(FM_ADVANCED_NAME)
    /\ Writes(curve_store(Machine(0), curve_pack(0), TextOf(CustomTokens), 0).m.io) # {}
    /\ curve_store(Machine(0), curve_pack(0),
                   TextOf([CustomTokens EXCEPT ![2] = 101]), 0).res = -EINVAL

\* C5 (stored-curve invariant): in every running state the temperatures of
\* each usable curve's active buffer are strictly increasing and at most 100
\* and its speeds are at most 150.
StoredCurveInvariant ==
    Running =>
      \A fan \in 0..1 :
         is_curve_allowed(curve_pack(fan).curve) =>
            LET c == ActiveCurve(Machine(0), fan)
                n == curve_pack(fan).curve.entries_count
            IN  /\ \A i \in 0..(n - 2) : c.temp[i] <= 100
                /\ \A i \in 0..(n - 3) : c.temp[i] < c.temp[i + 1]
                /\ \A i \in 0..(n - 1) : c.speed[i] <= 150

\* C6 (default buffer): while the module runs and when it is unloaded, no
\* step changes an entry of a default buffer.
DefaultBufferFrozen ==
    [][phase = "running" =>
          /\ curve_temp_default' = curve_temp_default
          /\ curve_fan_speed_default' = curve_fan_speed_default]_vars

\* manual mode with a customised cpu curve in the active buffer and in the
\* registers, the default buffer still holding the factory curve
WitDefaultBufferFrozen ==
    /\ Running
    /\ 0 \in ResetOnAutoFans
    /\ ActiveCurve(Machine(0), 0) # DefaultCurve(Machine(0), 0)
    /\ ECCurve(Machine(0), 0) = ActiveCurve(Machine(0), 0)
    /\ DefaultCurve(Machine(0), 0) =
          [speed |-> [i \in 0..(CurveEntries - 1) |-> FactorySpeed(0, i)],
           temp  |-> [i \in 0..(CurveEntries - 2) |-> FactoryTemp(0, i)]]

\* C8 (safe-wrapper gate): while the fan-mode register holds a recognized
\* mode other than advanced, a show and a store (of the whole curve or of one
\* point) on a ResetOnAuto curve succeed and access no curve register; the
\* show leaves the buffers as they are and the store leaves the EC as it is.
SafeWrapperGate ==
    (/\ Running
     /\ fan_mode_get(Machine(0)).res = 0
     /\ fan_mode_get(Machine(0)).dst # FM_ADVANCED_NAME) =>
      \A fan \in ResetOnAutoFans :
         /\ LET s == curve_show(Machine(0), curve_pack(fan))
            IN  /\ s.res > 0
                /\ Touching(s.m.io, AllCurveAddrs) = {}
                /\ Buffers(s.m) = Buffers(Machine(0))
         /\ \A buf \in CurveTexts \ RejectedTexts, g \in GarbageBytes :
               LET r == curve_store(Machine(0), curve_pack(fan), buf, g)
               IN  (read_curve(Machine(0), curve_pack(fan).curve_fan_speed,
                               curve_pack(fan).curve_temp,
                               conf.cpu.fan_curve.entries_count, buf, g).res >= 0) =>
                     /\ r.res = Len(buf)
                     /\ Touching(r.m.io, AllCurveAddrs) = {}
                     /\ r.m.ec = ec
         /\ \A a \in {x \in curve_attrs : x[1] = fan}, parsed \in PointInputs :
               LET r == curve_attr_store(Machine(0), a[1], a[2], a[3], parsed, 3)
               IN  /\ Touching(r.m.io, AllCurveAddrs) = {}
                   /\ r.m.ec = ec
                   /\ (parsed.ret = 0 /\ parsed.val <= 100) => r.res = 3

\* silent mode, the active cpu curve differing from the one in the
\* registers, and a store that changes the active buffer
WitSafeWrapperGate ==
    /\ Running
    /\ 0 \in ResetOnAutoFans
    /\ ec[U8(conf.fan_mode.address)] = ModeValue(FM_SILENT_NAME)
    /\ ActiveCurve(Machine(0), 0) # ECCurve(Machine(0), 0)
    /\ LET r == curve_store(Machine(0), curve_pack(0), TextOf(CustomTokens), 0)
       IN  /\ r.res > 0
           /\ ActiveCurve(r.m, 0) # ActiveCurve(Machine(0), 0)

\* a transition into auto, silent or basic that went through: a result
\* without error and the fan-mode register written
Left(r) == Went(r) /\ Failed(r.m.io) = {}
           /\ Writes(r.m.io) \cap Touching(r.m.io, {U8(conf.fan_mode.address)}) # {}

LeftManual(r) ==
    \A fan \in ResetOnAutoFans :
       /\ ECCurve(r.m, fan) = DefaultCurve(r.m, fan)
       /\ DefaultCurve(r.m, fan) = DefaultCurve(Machine(0), fan)
       /\ IF fan_mode_get(Machine(0)).dst = FM_ADVANCED_NAME
          THEN ActiveCurve(r.m, fan) = ECCurve(Machine(0), fan)
          ELSE ActiveCurve(r.m, fan) = ActiveCurve(Machine(0), fan)

EnteringManual ==
    Running =>
      /\ \A ch \in 0..1, f \in FailChoices :
            LET r == msi_ec_hwmon_write(Machine(f), ch, PWM_ENABLE_MANUAL)
            IN  (r.res = 0 /\ ~ r.oops) =>
                  /\ r.m.ec[U8(conf.fan_mode.address)] = ModeValue(FM_ADVANCED_NAME)
                  /\ \A fan \in ResetOnAutoFans : ECCurve(r.m, fan) = ActiveCurve(r.m, fan)
      /\ \A buf \in {"advanced", "advanced\n"}, f \in FailChoices :
            LET r == fan_mode_store(Machine(f), buf)
            IN  r.res > 0 =>
                  /\ r.m.ec[U8(conf.fan_mode.address)] = ModeValue(FM_ADVANCED_NAME)
                  /\ \A fan \in ResetOnAutoFans : ECCurve(r.m, fan) = ActiveCurve(r.m, fan)

\* auto mode, the active cpu curve differing from the one in the registers,
\* and a PWM-enable Manual write that goes through
WitEnteringManual ==
    /\ Running
    /\ 0 \in ResetOnAutoFans
    /\ ec[U8(conf.fan_mode.address)] = ModeValue(FM_AUTO_NAME)
    /\ ActiveCurve(Machine(0), 0) # ECCurve(Machine(0), 0)
    /\ LET r == msi_ec_hwmon_write(Machine(0), 1, PWM_ENABLE_MANUAL)
       IN  r.res = 0 /\ ~ r.oops /\ ECCurve(r.m, 0) = ActiveCurve(Machine(0), 0)

----------------------------------------------------------------------------
(* Properties of profile resolution (SpecResolve) *)

\* the version string load_configuration() resolves
VersionAtLoad == IF firmware # NULL THEN firmware ELSE ec_fw_version

\* the version strings of a profile
AllowedFw(i) ==
    {CONFIGURATIONS[i].allowed_fw[k] : k \in 1..Len(CONFIGURATIONS[i].allowed_fw)}

\* C7 (profile resolution): a version string listed by a profile makes
\* load_configuration() select that very profile, whichever profile of the
\* registry it is, and mark the configuration loaded; a version string no
\* profile lists makes it fail with -EOPNOTSUPP when debug is off.  The same
\* holds of the configuration found once the load is over.
ProfileResolution ==
    /\ phase = "unloaded" =>
          LET r == load_configuration(Machine(0))
          IN  /\ \A i \in 1..Len(CONFIGURATIONS) :
                    VersionAtLoad \in AllowedFw(i) =>
                       /\ r.res = 0
                       /\ r.conf_loaded
                       /\ r.conf = [CONFIGURATIONS[i] EXCEPT !.allowed_fw = <<>>]
              /\ (VersionAtLoad \notin KnownFirmware /\ ~ debug) =>
                    r.res = -EOPNOTSUPP /\ ~ r.conf_loaded
    /\ phase \in {"probing", "running", "exited"} =>
          \A i \in 1..Len(CONFIGURATIONS) :
             VersionAtLoad \in AllowedFw(i) =>
                conf_loaded /\ conf.id = CONFIGURATIONS[i].id
    /\ (phase # "unloaded" /\ VersionAtLoad \notin KnownFirmware /\ ~ debug) =>
          phase = "failed" /\ ~ conf_loaded

\* the load is over and the version string read from the EC, listed second
\* by CONF1, selected CONF1
WitProfileResolution ==
    /\ phase = "probing"
    /\ conf_loaded
    /\ firmware = NULL
    /\ ec_fw_version = ConfNamed("CONF1").allowed_fw[2]
    /\ conf.id = "CONF1"


----------------------------------------------------------------------------
(* Properties of the PWM-enable machine, continued (SpecPwm) *)

\* the fan-mode name a PWM-enable value stands for
NameOfPwmEnable(v) ==
    CASE v = PWM_ENABLE_MANUAL -> FM_ADVANCED_NAME
      [] v = PWM_ENABLE_AUTO -> FM_AUTO_NAME
      [] v = PWM_ENABLE_SILENT -> FM_SILENT_NAME
      [] v = PWM_ENABLE_BASIC -> FM_BASIC_NAME

\* C11 (named-mode writes): a PWM-enable write of Manual, Silent or Basic
\* that returns success leaves the cooler-boost bit clear, the fan-mode
\* register at the value the profile gives the mode, and both cached power
\* states at the written value.
NamedModeWrite ==
    Running =>
      \A ch \in 0..1, f \in FailChoices,
         v \in {PWM_ENABLE_MANUAL, PWM_ENABLE_SILENT, PWM_ENABLE_BASIC} :
         LET r == msi_ec_hwmon_write(Machine(f), ch, v)
         IN  (r.res = 0 /\ ~ r.oops) =>
               /\ ~ TestBit(r.m.ec[U8(conf.cooler_boost.address)], conf.cooler_boost.bit)
               /\ r.m.ec[U8(conf.fan_mode.address)] = ModeValue(NameOfPwmEnable(v))
               /\ r.m.virtual_hwmon_pwm_enable = [c \in 0..1 |-> v]

\* C12 (rejected write): a PWM-enable write that returns -EINVAL leaves the
\* EC, the curve buffers and both cached power states as they were.
RejectedWriteNoMutation ==
    Running =>
      \A ch \in 0..1, f \in FailChoices, val \in PwmEnableValues :
         LET r == msi_ec_hwmon_write(Machine(f), ch, val)
         IN  (r.res = -EINVAL /\ ~ r.oops) =>
               /\ r.m.ec = ec
               /\ Buffers(r.m) = Buffers(Machine(0))
               /\ r.m.virtual_hwmon_pwm_enable = virtual_hwmon_pwm_enable

\* C13 (inference): a PWM-enable read on a channel with no cached power
\* state returns Full when the cooler-boost bit is set; otherwise the value
\* of the mode the fan-mode register names, both cached power states then
\* holding that value; otherwise, the register naming no mode of the
\* profile, it returns the unknown marker and does not fail.
InferredRead ==
    Running =>
      \A ch \in 0..1 :
         virtual_hwmon_pwm_enable[ch] < 0 =>
            LET r == msi_ec_hwmon_read(Machine(0), ch)
            IN  /\ r.res = 0
                /\ ~ r.oops
                /\ IF TestBit(ec[U8(conf.cooler_boost.address)], conf.cooler_boost.bit)
                   THEN r.val = <<PWM_ENABLE_FULL>>
                   ELSE IF ModesOfValue(ec[U8(conf.fan_mode.address)]) = {} THEN r.val = <<-1>>
                   ELSE r.val = <<PwmEnableOfName(fan_mode_get(Machine(0)).dst)>>
                /\ r.val # <<-1>> =>
                      r.m.virtual_hwmon_pwm_enable = [c \in 0..1 |-> r.val[1]]

\* C14 (power-state domain): each cached power state is Full, Manual, Auto,
\* Silent, Basic or the unknown marker.
PowerStateDomain ==
    \A c \in 0..1 : virtual_hwmon_pwm_enable[c] \in -1..PWM_ENABLE_BASIC

\* PWM-enable reads on the channels of seq, one after the other; the run
\* stops at the first one that does not come back
RECURSIVE ReadsThen(_, _)
ReadsThen(m, seq) ==
    IF seq = <<>> THEN [res |-> 0, oops |-> FALSE, m |-> m]
    ELSE Bind(msi_ec_hwmon_read(Fresh(m), Head(seq)), LAMBDA r :
             IF ~ Went(r) THEN [res |-> r.res, oops |-> r.oops, m |-> r.m]
             ELSE ReadsThen(r.m, Tail(seq)))

\* C15 (retained Auto request): after a PWM-enable Auto write on one channel,
\* followed by PWM-enable reads only, a PWM-enable Auto write on the other
\* channel that returns success leaves the auto value in the fan-mode
\* register, whatever the cached power states were before the first write.
\* The reads in between: none, one, or two, on any channels.
AutoRequestRetained ==
    Running =>
      \A ch \in 0..1,
         reads \in {<<>>} \cup {<<c>> : c \in 0..1} \cup {<<c, d>> : c, d \in 0..1} :
         LET r1 == msi_ec_hwmon_write(Machine(0), ch, PWM_ENABLE_AUTO)
             r2 == ReadsThen(r1.m, reads)
             r3 == msi_ec_hwmon_write(Fresh(r2.m), 1 - ch, PWM_ENABLE_AUTO)
         IN  (Went(r1) /\ Went(r2) /\ Went(r3)) =>
                r3.m.ec[U8(conf.fan_mode.address)] = ModeValue(FM_AUTO_NAME)

----------------------------------------------------------------------------
(* Properties of startup and teardown *)

\* C16 (startup seeding): a probe that returns success has read the curve
\* registers of every usable curve, whatever the fan mode and without
\* looking at it, into the default buffers and copied these into the active
\* buffers; a probe during which an EC access fails returns the error.
StartupSeeding ==
    (phase = "probing" /\ conf_loaded) =>
      \A f \in 0..(ALL_CURVES_COUNT * (2 * CurveEntries - 1)) :
         LET r == msi_platform_probe(Machine(f))
         IN  /\ r.res >= 0 =>
                  /\ \A fan \in 0..(ALL_CURVES_COUNT - 1) :
                        is_curve_allowed(curve_pack(fan).curve) =>
                           /\ DefaultCurve(r.m, fan) = ECCurve(Machine(0), fan)
                           /\ r.m.curve_temp[fan] = r.m.curve_temp_default[fan]
                           /\ r.m.curve_fan_speed[fan] = r.m.curve_fan_speed_default[fan]
                  /\ Touching(r.m.io, {U8(conf.fan_mode.address)}) = {}
                  /\ Writes(r.m.io) = {}
             /\ Failed(r.m.io) # {} => r.res = -EIO

\* the probe on CONF401 in auto mode: both curves usable, the registers
\* holding the factory curve, and the default buffers holding it afterwards
WitStartupSeeding ==
    /\ phase = "probing"
    /\ conf_loaded
    /\ 0 \in ResetOnAutoFans
    /\ ec[U8(conf.fan_mode.address)] = ModeValue(FM_AUTO_NAME)
    /\ LET r == msi_platform_probe(Machine(0))
       IN  /\ r.res = 0
           /\ DefaultCurve(r.m, 0) =
                 [speed |-> [i \in 0..(CurveEntries - 1) |-> FactorySpeed(0, i)],
                  temp  |-> [i \in 0..(CurveEntries - 2) |-> FactoryTemp(0, i)]]
           /\ ActiveCurve(r.m, 0) = DefaultCurve(r.m, 0)

DebugNoProfile ==
    (debug /\ VersionAtLoad \notin KnownFirmware) =>
      /\ phase = "unloaded" =>
            \A f \in FailChoices :
               LET r == load_configuration(Machine(f))
               IN  /\ f = 0 => r.res = 0
                   /\ r.res >= 0 => ~ r.conf_loaded /\ r.conf = CONF_ZERO
                   /\ Touching(r.m.io, {U8(CONF_ZERO.fan_mode.address)}) = {}
      /\ phase \in {"probing", "running", "exited"} =>
            /\ ~ conf_loaded
            /\ conf = CONF_ZERO
            /\ \A fan \in 0..(ALL_CURVES_COUNT - 1) :
                  ~ is_curve_allowed(curve_pack(fan).curve)
            /\ msi_platform_probe(Machine(0)).res = 0
            /\ msi_platform_probe(Machine(0)).m.io = <<>>
            /\ msi_ec_exit(Machine(0)).m.io = <<>>
            /\ ~ Running
            /\ ~ msi_ec_is_visible(conf.fan_mode.address)
            /\ ~ msi_ec_is_visible(conf.cooler_boost.address)
            \* the EC is as it was when the module was loaded
            /\ ec = ECAtLoad(ec[212], ec[152])

\* the module running in debug mode with no profile
WitDebugNoProfile ==
    /\ phase = "running"
    /\ debug
    /\ VersionAtLoad \notin KnownFirmware
    /\ ~ conf_loaded

----------------------------------------------------------------------------
(* The curve text codec on its own: print_curve and read_curve on curves   *)
(* of every size, the buffers and the texts drawn from families of values. *)

\* speeds s0, s0 + step, ...: <<s0, step>>
SpeedFamilies == {<<0, 0>>, <<10, 9>>, <<150, 0>>, <<7, 1>>}

\* temperatures t0, t0 + step, ...: <<t0, step>>
TempFamilies == {<<0, 1>>, <<1, 6>>, <<10, 5>>}

\* a buffer holding the first n values of a family, zero behind them
FamilyBuffer(fam, n) ==
    [i \in 0..(CURVE_MAX_ENTRIES - 1) |-> IF i < n THEN fam[1] + fam[2] * i ELSE 0]

\* the tokens of a curve of n entries: speeds of one family at the even
\* places, temperatures of another at the odd ones
FamilyTokens(sf, tf, n) ==
    [j \in 1..(2 * n - 1) |->
        IF j % 2 = 1 THEN sf[1] + sf[2] * ((j - 1) \div 2)
        ELSE tf[1] + tf[2] * ((j \div 2) - 1)]

\* the token sequences written to a curve of n entries: those of the
\* families and, for three entries, 10 40 60 70 90
TokenSeqs(n) ==
    {FamilyTokens(sf, tf, n) : sf \in SpeedFamilies, tf \in TempFamilies}
    \cup (IF n = 3 THEN {<<10, 40, 60, 70, 90>>} ELSE {})

\* a text of tokens with a leading zero each, separated by a tab and a space
RECURSIVE PaddedTextOf(_)
PaddedTextOf(tokens) ==
    IF tokens = <<>> THEN <<>>
    ELSE IF Len(tokens) = 1 THEN <<"0">> \o Decimal(tokens[1])
    ELSE <<"0">> \o Decimal(tokens[1]) \o <<"\t", " ">> \o PaddedTextOf(Tail(tokens))

\* the module running on a profile whose curves have n entries, the active
\* buffers of the cpu fan holding a curve of the families
InitCodec ==
    \E n \in 1..CURVE_MAX_ENTRIES, sf \in SpeedFamilies, tf \in TempFamilies :
        /\ phase = "running"
        /\ firmware = NULL
        /\ ec_fw_version = ConfNamed("CONF401").allowed_fw[1]
        /\ debug = FALSE
        /\ conf_loaded = TRUE
        /\ conf = [ConfNamed("CONF401") EXCEPT !.allowed_fw = <<>>,
                                               !.cpu.fan_curve.entries_count = n,
                                               !.gpu.fan_curve.entries_count = n]
        /\ ec = ECAtLoad(0, 2)
        /\ curve_temp = [ZeroBuffers EXCEPT ![0] = FamilyBuffer(tf, n - 1)]
        /\ curve_fan_speed = [ZeroBuffers EXCEPT ![0] = FamilyBuffer(sf, n)]
        /\ curve_temp_default = ZeroBuffers
        /\ curve_fan_speed_default = ZeroBuffers
        /\ virtual_hwmon_pwm_enable = [c \in 0..1 |-> -1]
        /\ threads = [t \in 0..1 |-> Request("none", "done", 0, 0, 0)]

\* read_curve on the active buffers of the cpu fan
CodecRead ==
    /\ \E tokens \in TokenSeqs(conf.cpu.fan_curve.entries_count), g \in GarbageBytes :
         \E buf \in {TextOf(tokens), TextOf(tokens) \o <<"\n">>, PaddedTextOf(tokens)} :
         Commit(read_curve(Machine(0), curve_pack(0).curve_fan_speed,
                           curve_pack(0).curve_temp, conf.cpu.fan_curve.entries_count, buf, g))
    /\ UNCHANGED <<phase, firmware, debug, ec_fw_version, conf, conf_loaded>>

\* print_curve of the active buffers of the cpu fan
CodecPrint ==
    /\ Len(print_curve(curve_fan_speed[0], curve_temp[0], conf.cpu.fan_curve.entries_count)) > 0
    /\ UNCHANGED vars

NextCodec ==
    \/ CodecRead
    \/ CodecPrint

SpecCodec == InitCodec /\ [][NextCodec]_vars

\* C19 (codec round trip): whatever the size of the curve, when the active
\* buffers hold speeds at most 150 and strictly increasing temperatures at
\* most 100, read_curve accepts the text print_curve makes of them and gives
\* back the same speeds and temperatures.
CodecRoundTrip ==
    LET n == conf.cpu.fan_curve.entries_count
        speed == curve_fan_speed[0]
        temp == curve_temp[0]
    IN  (/\ n \in 1..CURVE_MAX_ENTRIES
         /\ \A i \in 0..(n - 1) : speed[i] <= 150
         /\ \A i \in 0..(n - 2) : temp[i] <= 100
         /\ \A i \in 0..(n - 3) : temp[i] < temp[i + 1]) =>
           \A g \in GarbageBytes :
              LET text == print_curve(speed, temp, n)
                  r == read_curve([Machine(0) EXCEPT !.curve_fan_speed = ZeroBuffers,
                                                     !.curve_temp = ZeroBuffers],
                                  curve_pack(0).curve_fan_speed,
                                  curve_pack(0).curve_temp, n, text, g)
              IN  /\ r.res = Len(text)
                  /\ \A i \in 0..(n - 1) : r.m.curve_fan_speed[0][i] = speed[i]
                  /\ \A i \in 0..(n - 2) : r.m.curve_temp[0][i] = temp[i]

\* C20 (codec layout): when read_curve accepts a text of the tokens
\* t[0..2n-2], however they are separated, it stores t[2k] as speed k and
\* t[2k+1] as temperature k, and print_curve of what it stored is the tokens
\* in decimal, a single space between them and a newline at the end.
CodecLayout ==
    \A tokens \in TokenSeqs(conf.cpu.fan_curve.entries_count), g \in GarbageBytes :
     \A buf \in {TextOf(tokens), TextOf(tokens) \o <<"\n">>, PaddedTextOf(tokens)} :
       LET n == conf.cpu.fan_curve.entries_count
           r == read_curve(Machine(0), curve_pack(0).curve_fan_speed,
                           curve_pack(0).curve_temp, n, buf, g)
       IN  r.res >= 0 =>
             /\ r.res = Len(buf)
             /\ \A k \in 0..(n - 1) : r.m.curve_fan_speed[0][k] = tokens[2 * k + 1]
             /\ \A k \in 0..(n - 2) : r.m.curve_temp[0][k] = tokens[2 * k + 2]
             /\ print_curve(r.m.curve_fan_speed[0], r.m.curve_temp[0], n)
                   = TextOf(tokens) \o <<"\n">>

\* a curve of three entries holding what read_curve made of 10 40 60 70 90
WitCodecLayout ==
    /\ conf.cpu.fan_curve.entries_count = 3
    /\ \A k \in 0..2 : curve_fan_speed[0][k] = <<10, 60, 90>>[k + 1]
    /\ \A k \in 0..1 : curve_temp[0][k] = <<40, 70>>[k + 1]
    /\ print_curve(curve_fan_speed[0], curve_temp[0], 3)
          = <<"1", "0", " ", "4", "0", " ", "6", "0", " ", "7", "0", " ", "9", "0", "\n">>

----------------------------------------------------------------------------
(* The whole-curve grammar and the per-point attributes *)

\* C21 (whole-curve grammar): on either channel a whole-curve store is
\* accepted only if the text is exactly 2*N-1 unsigned decimal integers, each
\* below 256, followed by nothing but at most one newline; a text with another
\* token count, a token of 256 or more, or other trailing content fails with
\* -EINVAL.  The texts are the valid curve 10 1 19 7 28 ... of the channel's
\* size with one token replaced, a token dropped or added, and a tail.
WholeCurveGrammar ==
    LET n == conf.cpu.fan_curve.entries_count
        base == FamilyTokens(<<10, 9>>, <<1, 6>>, n)
        replaced == {<<"0", "2", "0">>, <<"2", "5", "6">>, <<"0", "2", "5", "6">>,
                     <<"2", "1", "4", "7", "4", "8", "3", "6", "4", "8">>,
                     <<"4", "2", "9", "4", "9", "6", "7", "2", "9", "6">>}
        \* the token denotes a number below 256
        small(tok) == LET nz == {i \in 1..Len(tok) : tok[i] # "0"}
                          sig == IF nz = {} THEN <<>>
                                 ELSE SubSeq(tok, First(nz), Len(tok))
                      IN  /\ Len(sig) <= 3
                          /\ (Len(sig) = 3 =>
                                100 * DigitValue(sig[1]) + 10 * DigitValue(sig[2])
                                    + DigitValue(sig[3]) < 256)
        tails == {<<>>, <<"\n">>, <<" ">>, <<"\n", "\n">>, <<" ", "\n">>}
    IN  \A fan \in 0..1, tok \in replaced, count \in (2 * n - 2)..(2 * n),
           tail \in tails, g \in GarbageBytes :
          LET text == tok \o (IF count >= 2 THEN <<" ">> ELSE <<>>)
                          \o TextOf([j \in 1..(count - 1) |->
                                        IF j + 1 <= 2 * n - 1 THEN base[j + 1] ELSE 7])
                          \o tail
              r == curve_store(Machine(0), curve_pack(fan), text, g)
              wellformed == /\ count = 2 * n - 1
                            /\ small(tok)
                            /\ tail \in {<<>>, <<"\n">>}
          IN  count >= 1 => /\ r.res >= 0 => wellformed
                            /\ ~ wellformed => r.res = -EINVAL

\* C22 (whole-curve validity): a text of 2*N-1 tokens below 256 is committed
\* to the active buffer if and only if its temperatures are strictly
\* increasing and at most 100 and its speeds are at most 150, whatever the
\* curve's max_speed; a first breakpoint of 0 is allowed.
WholeCurveValidity ==
    LET n == conf.cpu.fan_curve.entries_count
        speeds == SpeedFamilies \cup {<<151, 0>>, <<255, 0>>}
        temps == TempFamilies \cup {<<5, 0>>, <<40, 6>>, <<100, 1>>}
    IN  \A fan \in 0..1, sf \in speeds, tf \in temps, g \in GarbageBytes :
          LET tokens == FamilyTokens(sf, tf, n)
              r == curve_store(Machine(0), curve_pack(fan), TextOf(tokens), g)
              valid == /\ \A k \in 0..(n - 1) : tokens[2 * k + 1] <= 150
                       /\ \A k \in 0..(n - 2) : tokens[2 * k + 2] <= 100
                       /\ \A k \in 0..(n - 3) : tokens[2 * k + 2] < tokens[2 * k + 4]
              committed == /\ r.res = Len(TextOf(tokens))
                           /\ \A k \in 0..(n - 1) :
                                 ActiveCurve(r.m, fan).speed[k] = tokens[2 * k + 1]
                           /\ \A k \in 0..(n - 2) :
                                 ActiveCurve(r.m, fan).temp[k] = tokens[2 * k + 2]
          IN  /\ valid => committed
              /\ ~ valid => r.res = -EINVAL /\ Buffers(r.m) = Buffers(Machine(0))

----------------------------------------------------------------------------
(* The per-point attributes on their own: the module running on the        *)
(* profile with fan curves, max_speed drawn from the values the scaling    *)
(* tells apart, the apply strategy of each curve from the two there are,   *)
(* the first cpu speed register as the firmware or a write to ec_set left  *)
(* it.                                                                     *)

\* the state msi_platform_probe leaves: the default and the active buffers
\* hold the curve registers
InitPoint ==
    \E max \in {0, CurveMaxSpeed}, fm \in {0, 128},
       s \in {FactorySpeed(0, 0), CurveMaxSpeed + 1},
       strategy \in {<<CURVE_APPLY_STRATEGY_RESET_ON_AUTO, CURVE_APPLY_STRATEGY_RESET_ON_AUTO>>,
                     <<CURVE_APPLY_STRATEGY_NORMAL, CURVE_APPLY_STRATEGY_RESET_ON_AUTO>>,
                     <<CURVE_APPLY_STRATEGY_RESET_ON_AUTO, CURVE_APPLY_STRATEGY_NORMAL>>} :
        LET cpu == ConfNamed("CONF401").cpu.fan_curve
            gpu == ConfNamed("CONF401").gpu.fan_curve
            e == [ECAtLoad(fm, 2) EXCEPT ![cpu.speed_start_address] = s]
            pulled(start, cnt) ==
                [i \in 0..(CURVE_MAX_ENTRIES - 1) |-> IF i < cnt THEN e[start + i] ELSE 0]
            speeds == [fan \in 0..1 |->
                          IF fan = 0 THEN pulled(cpu.speed_start_address, cpu.entries_count)
                          ELSE pulled(gpu.speed_start_address, gpu.entries_count)]
            temps == [fan \in 0..1 |->
                         IF fan = 0
                         THEN pulled(cpu.temperature_start_address, cpu.entries_count - 1)
                         ELSE pulled(gpu.temperature_start_address, gpu.entries_count - 1)]
        IN  /\ phase = "running"
            /\ firmware = NULL
            /\ ec_fw_version = ConfNamed("CONF401").allowed_fw[1]
            /\ debug = FALSE
            /\ conf_loaded = TRUE
            /\ conf = [ConfNamed("CONF401") EXCEPT
                          !.cpu.fan_curve.max_speed = max,
                          !.gpu.fan_curve.max_speed = max,
                          !.cpu.fan_curve.apply_strategy = strategy[1],
                          !.gpu.fan_curve.apply_strategy = strategy[2]]
            /\ ec = e
            /\ curve_temp = temps
            /\ curve_fan_speed = speeds
            /\ curve_temp_default = temps
            /\ curve_fan_speed_default = speeds
            /\ virtual_hwmon_pwm_enable = [c \in 0..1 |-> -1]
            /\ threads = [t \in 0..1 |-> Request("none", "done", 0, 0, 0)]

NextPoint ==
    \/ CurveShow
    \/ CurveStore({TextOf([CustomTokens EXCEPT ![1] = CurveMaxSpeed])})
    \/ CurveAttrShow
    \/ CurveAttrStore(StorePoints, {[ret |-> 0, val |-> 0], [ret |-> 0, val |-> 255]})

SpecPoint == InitPoint /\ [][NextPoint]_vars

\* C23 (per-point scaling round trip): for every duty p in 0..255 a speed
\* point write stores floor(p * m / 255), m the curve's max_speed or 100 when
\* that is 0, and a read of the point then returns r with r <= p and
\* p - r < 255 / m + 1; with m = 150 and p = 255 the stored value is 150 and
\* the read returns 255.
PointScalingRoundTrip ==
    Running =>
      \A fan \in 0..1, point \in {1, CurveEntries}, p \in 0..255 :
         LET max == IF curve_pack(fan).curve.max_speed = 0 THEN 100
                    ELSE curve_pack(fan).curve.max_speed
             w == curve_attr_store(Machine(0), fan, point, TRUE, [ret |-> 0, val |-> p], 3)
             rd == curve_attr_show(Fresh(w.m), fan, point, TRUE)
         IN  /\ w.res = 3
             /\ w.m.curve_fan_speed[fan][point - 1] = (p * max) \div 255
             /\ rd.res = 0
             /\ rd.out[1] <= p
             /\ (p - rd.out[1]) * max < 255 + max
             /\ (max = 150 /\ p = 255) =>
                    w.m.curve_fan_speed[fan][point - 1] = 150 /\ rd.out[1] = 255

\* on the profile's own max_speed the last cpu speed point was written with
\* 255 and reads back as 255
WitPointScalingRoundTrip ==
    /\ Running
    /\ conf.cpu.fan_curve.max_speed = CurveMaxSpeed
    /\ curve_fan_speed[0][CurveEntries - 1] = CurveMaxSpeed
    /\ curve_fan_speed_default[0][CurveEntries - 1] # CurveMaxSpeed
    /\ curve_attr_show(Machine(0), 0, CurveEntries, TRUE).out = <<255>>

\* C24 (per-point speed read): whatever speed s the active buffer holds,
\* written by a per-point store, by a whole-curve store or pulled from the
\* EC, the read of the point returns floor(s * 255 / m), m the curve's
\* max_speed or 100 when that is 0, and the result is within 0..255.
PointSpeedRead ==
    Running =>
      \A fan \in 0..1, point \in 1..CurveEntries :
         LET max == IF curve_pack(fan).curve.max_speed = 0 THEN 100
                    ELSE curve_pack(fan).curve.max_speed
             s == curve_fan_speed[fan][point - 1]
             rd == curve_attr_show(Machine(0), fan, point, TRUE)
         IN  /\ rd.res = 0
             /\ rd.out[1] = (s * 255) \div max
             /\ rd.out[1] \in 0..255

\* C25 (per-point write validation): a per-point write is rejected with
\* -EINVAL, the buffers and the EC left as they were, when the point is
\* outside 1..N for a speed or outside 1..N-1 for a temperature, when a duty
\* is above 255 or when a temperature is above 100; otherwise the write
\* succeeds and only entry point-1 of the addressed array takes a new value,
\* the scaled duty or the temperature.  No EC access fails.
PointWriteValidation ==
    Running =>
      \A fan \in 0..1, point \in 0..(CurveEntries + 1), is_pwm \in BOOLEAN,
         val \in {0, 100, 101, 255, 256} :
         LET n == curve_pack(fan).curve.entries_count
             w == curve_attr_store(Machine(0), fan, point, is_pwm, [ret |-> 0, val |-> val], 3)
             rejected == \/ point < 1
                         \/ point > (IF is_pwm THEN n ELSE n - 1)
                         \/ val > (IF is_pwm THEN 255 ELSE 100)
             stored == IF is_pwm THEN (val * MaxSpeedOf(curve_pack(fan).curve)) \div 255
                       ELSE val
         IN  IF rejected
             THEN /\ w.res = -EINVAL
                  /\ Buffers(w.m) = Buffers(Machine(0))
                  /\ w.m.ec = ec
                  /\ w.m.io = <<>>
             ELSE /\ w.res = 3
                  /\ w.m.curve_fan_speed =
                        IF is_pwm THEN [curve_fan_speed EXCEPT ![fan][point - 1] = stored]
                        ELSE curve_fan_speed
                  /\ w.m.curve_temp =
                        IF is_pwm THEN curve_temp
                        ELSE [curve_temp EXCEPT ![fan][point - 1] = stored]
                  /\ w.m.curve_fan_speed_default = curve_fan_speed_default
                  /\ w.m.curve_temp_default = curve_temp_default

\* a temperature point was written with 0, and a write of 101 to it is
\* rejected
WitPointWriteValidation ==
    /\ Running
    /\ curve_temp[0][0] = 0
    /\ curve_temp_default[0][0] # 0
    /\ curve_attr_store(Machine(0), 0, 1, FALSE, [ret |-> 0, val |-> 101], 3).res = -EINVAL
    /\ curve_attr_store(Machine(0), 0, 1, FALSE, [ret |-> 0, val |-> 100], 3).res = 3

----------------------------------------------------------------------------
(* Failures of the bus, concurrent requests, the mode listing *)

\* C26 (no swallowed failure): when an EC access fails during a PWM-enable
\* write, a fan-mode name write, a curve show, a curve store or a per-point
\* store, the operation returns an error.
NoSwallowedFailure ==
    Running =>
      \A f \in 1..MaxFailAt :
         LET told(r) == Failed(r.m.io) # {} => r.res < 0
         IN  /\ \A channel \in 0..1, val \in PwmEnableValues :
                   told(msi_ec_hwmon_write(Machine(f), channel, val))
             /\ \A buf \in FanModeTexts : told(fan_mode_store(Machine(f), buf))
             /\ \A fan \in 0..1 :
                   /\ told(curve_show(Machine(f), curve_pack(fan)))
                   /\ told(curve_store(Machine(f), curve_pack(fan), TextOf(CustomTokens), 0))
             /\ \A a \in StorePoints :
                   told(curve_attr_store(Machine(f), a[1], a[2], a[3],
                                         [ret |-> 0, val |-> 100], 3))

----------------------------------------------------------------------------
(* Two requests at once.  No handler takes a lock of its own around the    *)
(* cached power states, the curve buffers or the curve registers, so two   *)
(* requests interleave between any two accesses of them; ec_set_bit holds  *)
(* its mutex over its read and write.                                      *)

\* the module running on CONF401 with a custom curve in the active buffers
\* (and in the curve registers when the fan mode is advanced), and either two
\* PWM-enable writes of Auto, one per channel, or a fan-mode write of "auto"
\* and a store of 255 to a speed point
InitRace ==
    \E auto \in BOOLEAN, fm \in {0, 16, 128}, fan \in 0..1, point \in 1..CurveEntries,
       cache \in [0..1 -> {-1, PWM_ENABLE_MANUAL, PWM_ENABLE_SILENT}] :
        LET c == ConfNamed("CONF401")
            start(f) == IF f = 0 THEN c.cpu.fan_curve ELSE c.gpu.fan_curve
            custom(a) ==
                IF \E f \in 0..1, k \in 0..(CurveEntries - 1) :
                       a = start(f).speed_start_address + k
                THEN CustomTokens[2 * (CHOOSE k \in 0..(CurveEntries - 1) : \E f \in 0..1 :
                                          a = start(f).speed_start_address + k) + 1]
                ELSE IF \E f \in 0..1, k \in 0..(CurveEntries - 2) :
                            a = start(f).temperature_start_address + k
                THEN CustomTokens[2 * (CHOOSE k \in 0..(CurveEntries - 2) : \E f \in 0..1 :
                                          a = start(f).temperature_start_address + k) + 2]
                ELSE -1
            buffer(f, at(_), cnt) ==
                [k \in 0..(CURVE_MAX_ENTRIES - 1) |-> IF k < cnt THEN at(k) ELSE 0]
            factory(f, addr, cnt) ==
                [k \in 0..(CURVE_MAX_ENTRIES - 1) |->
                    IF k < cnt THEN ECAtLoad(fm, 2)[addr + k] ELSE 0]
        IN  /\ phase = "running"
            /\ firmware = NULL
            /\ ec_fw_version = c.allowed_fw[1]
            /\ debug = FALSE
            /\ conf_loaded = TRUE
            /\ conf = c
            /\ ec = [a \in ECAddrs |-> IF fm = 128 /\ custom(a) >= 0 THEN custom(a)
                                        ELSE ECAtLoad(fm, 2)[a]]
            /\ curve_fan_speed =
                  [f \in 0..1 |-> [k \in 0..(CURVE_MAX_ENTRIES - 1) |->
                      IF k < CurveEntries THEN CustomTokens[2 * k + 1] ELSE 0]]
            /\ curve_temp =
                  [f \in 0..1 |-> [k \in 0..(CURVE_MAX_ENTRIES - 1) |->
                      IF k < CurveEntries - 1 THEN CustomTokens[2 * k + 2] ELSE 0]]
            /\ curve_fan_speed_default =
                  [f \in 0..1 |-> factory(f, start(f).speed_start_address, CurveEntries)]
            /\ curve_temp_default =
                  [f \in 0..1 |-> factory(f, start(f).temperature_start_address,
                                          CurveEntries - 1)]
            /\ virtual_hwmon_pwm_enable = IF auto THEN cache ELSE [ch \in 0..1 |-> -1]
            /\ threads =
                  [t \in 0..1 |->
                      IF auto THEN Request("hwmon_auto", "cache", t, 0, 0)
                      ELSE IF t = 0 THEN Request("fan_mode_auto", "mode_get", 0, 0, 0)
                      ELSE Request("point", "assign", fan, point - 1, 0)]

\* one step of msi_ec_hwmon_write(pwm_enable, channel, PWM_ENABLE_AUTO): the
\* assignment to the cache, set_cooler_boost(false), the test of the two
\* cached states, set_fan_mode(FM_AUTO_NAME)
AutoWriteStep(t) ==
    LET q == threads[t]
    IN  /\ q.op = "hwmon_auto"
        /\ \/ /\ q.pc = "cache"
              /\ virtual_hwmon_pwm_enable' =
                    [virtual_hwmon_pwm_enable EXCEPT ![q.fan] = PWM_ENABLE_AUTO]
              /\ threads' = [threads EXCEPT ![t].pc = "boost"]
              /\ UNCHANGED <<ec, curve_temp, curve_fan_speed, curve_temp_default,
                             curve_fan_speed_default>>
           \/ /\ q.pc = "boost"
              /\ ec' = set_cooler_boost(Machine(0), FALSE).m.ec
              /\ threads' = [threads EXCEPT ![t].pc = "check"]
              /\ UNCHANGED <<virtual_hwmon_pwm_enable, curve_temp, curve_fan_speed,
                             curve_temp_default, curve_fan_speed_default>>
           \/ /\ q.pc = "check"
              /\ threads' = [threads EXCEPT ![t].pc =
                    IF /\ virtual_hwmon_pwm_enable[1] = PWM_ENABLE_AUTO
                       /\ virtual_hwmon_pwm_enable[0] = PWM_ENABLE_AUTO
                       /\ fan_mode_is_available(FM_AUTO_NAME) = "true"
                    THEN "set" ELSE "done"]
              /\ UNCHANGED <<ec, virtual_hwmon_pwm_enable, curve_temp, curve_fan_speed,
                             curve_temp_default, curve_fan_speed_default>>
           \/ /\ q.pc = "set"
              /\ LET r == set_fan_mode(Machine(0), FM_AUTO_NAME)
                 IN  /\ ec' = r.m.ec
                     /\ curve_temp' = r.m.curve_temp
                     /\ curve_fan_speed' = r.m.curve_fan_speed
                     /\ curve_temp_default' = r.m.curve_temp_default
                     /\ curve_fan_speed_default' = r.m.curve_fan_speed_default
              /\ threads' = [threads EXCEPT ![t].pc = "done", ![t].wrote = @ + 1]
              /\ UNCHANGED virtual_hwmon_pwm_enable
        /\ UNCHANGED <<phase, firmware, debug, ec_fw_version, conf, conf_loaded>>

\* one step of fan_mode_store("auto"): curve_fan_mode_change, fan by fan the
\* fan_mode_get of sync_ec_curve_safe, one register read of the pull, one
\* register write of the push of the defaults, and at last the write of the
\* fan-mode register
FanModeStoreStep(t) ==
    LET q == threads[t]
        curve == curve_pack(q.fan).curve
        n == curve.entries_count
        reg == U8(IF q.i < n THEN curve.speed_start_address + q.i
                  ELSE curve.temperature_start_address + (q.i - n))
        last == q.i >= 2 * n - 2
        next_fan == IF q.fan + 1 < ALL_CURVES_COUNT
                    THEN Request(q.op, "mode_get", q.fan + 1, 0, q.wrote)
                    ELSE Request(q.op, "mode_write", 0, 0, q.wrote)
    IN  /\ q.op = "fan_mode_auto"
        /\ \/ /\ q.pc = "mode_get"
              /\ threads' = [threads EXCEPT ![t] =
                    IF ~ (/\ curve.apply_strategy = CURVE_APPLY_STRATEGY_RESET_ON_AUTO
                          /\ is_curve_allowed(curve))
                    THEN next_fan
                    ELSE IF /\ fan_mode_get(Machine(0)).res = 0
                            /\ fan_mode_get(Machine(0)).dst = FM_ADVANCED_NAME
                    THEN [q EXCEPT !.pc = "pull", !.i = 0]
                    ELSE [q EXCEPT !.pc = "push", !.i = 0]]
              /\ UNCHANGED <<ec, curve_temp, curve_fan_speed>>
           \/ /\ q.pc = "pull"
              /\ curve_fan_speed' = IF q.i < n
                                    THEN [curve_fan_speed EXCEPT ![q.fan][q.i] = ec[reg]]
                                    ELSE curve_fan_speed
              /\ curve_temp' = IF q.i < n THEN curve_temp
                               ELSE [curve_temp EXCEPT ![q.fan][q.i - n] = ec[reg]]
              /\ threads' = [threads EXCEPT ![t] =
                    IF last THEN [q EXCEPT !.pc = "push", !.i = 0]
                    ELSE [q EXCEPT !.i = @ + 1]]
              /\ UNCHANGED ec
           \/ /\ q.pc = "push"
              /\ ec' = [ec EXCEPT ![reg] =
                           IF q.i < n THEN curve_fan_speed_default[q.fan][q.i]
                           ELSE curve_temp_default[q.fan][q.i - n]]
              /\ threads' = [threads EXCEPT ![t] =
                    IF last THEN next_fan ELSE [q EXCEPT !.i = @ + 1]]
              /\ UNCHANGED <<curve_temp, curve_fan_speed>>
           \/ /\ q.pc = "mode_write"
              /\ ec' = [ec EXCEPT ![U8(conf.fan_mode.address)] = ModeValue(FM_AUTO_NAME)]
              /\ threads' = [threads EXCEPT ![t].pc = "done", ![t].wrote = @ + 1]
              /\ UNCHANGED <<curve_temp, curve_fan_speed>>
        /\ UNCHANGED <<phase, firmware, debug, ec_fw_version, conf, conf_loaded,
                       virtual_hwmon_pwm_enable, curve_temp_default,
                       curve_fan_speed_default>>

\* one step of curve_attr_store of a duty of 255 to the speed point q.i + 1:
\* the assignment to the buffer, the fan_mode_get of push_ec_curve_safe, one
\* register write of the push
PointStoreStep(t) ==
    LET q == threads[t]
        curve == curve_pack(q.fan).curve
        n == curve.entries_count
        reg == U8(IF q.i < n THEN curve.speed_start_address + q.i
                  ELSE curve.temperature_start_address + (q.i - n))
    IN  /\ q.op = "point"
        /\ \/ /\ q.pc = "assign"
              /\ curve_fan_speed' = [curve_fan_speed EXCEPT ![q.fan][q.i] =
                                        U8((255 * MaxSpeedOf(curve)) \div 255)]
              /\ threads' = [threads EXCEPT ![t] = [q EXCEPT !.pc = "mode_get", !.i = 0]]
              /\ UNCHANGED ec
           \/ /\ q.pc = "mode_get"
              /\ threads' = [threads EXCEPT ![t].pc =
                    IF /\ curve.apply_strategy = CURVE_APPLY_STRATEGY_RESET_ON_AUTO
                       /\ ~ (/\ fan_mode_get(Machine(0)).res = 0
                             /\ fan_mode_get(Machine(0)).dst = FM_ADVANCED_NAME)
                    THEN "done"
                    ELSE IF is_curve_allowed(curve) THEN "push" ELSE "done"]
              /\ UNCHANGED <<ec, curve_fan_speed>>
           \/ /\ q.pc = "push"
              /\ ec' = [ec EXCEPT ![reg] = IF q.i < n THEN curve_fan_speed[q.fan][q.i]
                                           ELSE curve_temp[q.fan][q.i - n]]
              /\ threads' = [threads EXCEPT ![t] =
                    IF q.i >= 2 * n - 2 THEN [q EXCEPT !.pc = "done"]
                    ELSE [q EXCEPT !.i = @ + 1]]
              /\ UNCHANGED curve_fan_speed
        /\ UNCHANGED <<phase, firmware, debug, ec_fw_version, conf, conf_loaded,
                       virtual_hwmon_pwm_enable, curve_temp, curve_temp_default,
                       curve_fan_speed_default>>

NextRace ==
    \/ \E t \in 0..1 : AutoWriteStep(t)
    \/ \E t \in 0..1 : FanModeStoreStep(t)
    \/ \E t \in 0..1 : PointStoreStep(t)

SpecRace == InitRace /\ [][NextRace]_vars

\* C27 (atomic Auto check-and-commit): when the PWM-enable writes of Auto on
\* channel 0 and on channel 1 run at once, neither channel cached as Auto
\* before, then whatever the interleaving set_fan_mode(auto), the transition
\* and the write of the fan-mode register, has run exactly once when both
\* have returned, and both channels are cached as Auto.
AtomicAutoCommit ==
    (\A t \in 0..1 : threads[t].op = "hwmon_auto" /\ threads[t].pc = "done") =>
       /\ threads[0].wrote + threads[1].wrote = 1
       /\ \A ch \in 0..1 : virtual_hwmon_pwm_enable[ch] = PWM_ENABLE_AUTO

\* C28 (curve operations atomic to each other): when a fan-mode write of
\* "auto", with its pull and its push of the defaults, runs at once with a
\* per-point store on a fan, then whatever the interleaving the curve
\* registers of each fan hold, when both have returned, one whole buffer
\* version: the defaults, the active buffer, or the custom curve the active
\* buffer held before.
CurveOpsAtomic ==
    (/\ threads[0].op = "fan_mode_auto" /\ threads[0].pc = "done"
     /\ threads[1].op = "point" /\ threads[1].pc = "done") =>
       \A fan \in 0..1 :
          ECCurve(Machine(0), fan) \in
             {DefaultCurve(Machine(0), fan), ActiveCurve(Machine(0), fan),
              [speed |-> [k \in 0..(CurveEntries - 1) |-> CustomTokens[2 * k + 1]],
               temp  |-> [k \in 0..(CurveEntries - 2) |-> CustomTokens[2 * k + 2]]]}

\* C29 (listing agrees with write acceptance): the available-modes listing
\* holds, in ascending order, 0 when the cooler-boost address is supported
\* and 1, 2, 3, 4 when the mode list names advanced, auto, silent, basic; a
\* PWM-enable write of a listed value is not refused as unavailable, and the
\* write of a value that is not listed fails with -EINVAL.
ListingAgreesWithWrite ==
    Running =>
      LET supported(v) ==
              IF v = PWM_ENABLE_FULL THEN conf.cooler_boost.address # MSI_EC_ADDR_UNSUPP
              ELSE \E i \in NamedModes : conf.fan_mode.modes[i].name = NameOfPwmEnable(v)
      IN  /\ pwm_enable_available_show = SelectSeq(<<0, 1, 2, 3, 4>>, supported)
          /\ \A v \in 0..4, channel \in 0..1 :
                LET r == msi_ec_hwmon_write(Machine(0), channel, v)
                IN  IF supported(v) THEN ~ r.oops /\ r.res = 0
                    ELSE ~ r.oops /\ r.res = -EINVAL

\* C30 (fan-mode name read): the read of the fan mode reports the name of
\* the first mode of the profile whose value the fan-mode register holds;
\* when no mode has that value it reports "unspecified" (for the one sentinel
\* value) or "unknown" with the value read from the register.
FanModeNameRead ==
    Running =>
      LET raw == ec[U8(conf.fan_mode.address)]
          r == fan_mode_show(Machine(0))
      IN  /\ r.res = 0
          /\ IF ModesOfValue(raw) # {}
             THEN r.out = <<conf.fan_mode.modes[First(ModesOfValue(raw))].name>>
             ELSE r.out \in {<<"unspecified">>, <<"unknown", raw>>}

----------------------------------------------------------------------------
(* Pull and push, the strategies, the order of a mode change *)

\* C31 (pull/push failure semantics): sync_ec_curve and push_ec_curve on a
\* curve that is not allowed (a start address 0 or unsupported, entries_count
\* 0 or above 16) return -EINVAL with no register access and no buffer
\* change; when the k-th register access fails they stop with -EIO, the
\* entries before k transferred and those from k on untouched.
PullPushFailure ==
    Running =>
      \A fan \in 0..1 :
         LET pack == curve_pack(fan)
             curve == pack.curve
             n == curve.entries_count
             \* the register and the buffer slot of the j-th access, j from 0
             reg(j) == U8(IF j < n THEN curve.speed_start_address + j
                          ELSE curve.temperature_start_address + (j - n))
             slot(m, j) == IF j < n THEN m.curve_fan_speed[fan][j]
                           ELSE m.curve_temp[fan][j - n]
             m0 == Machine(0)
             barred == {[curve EXCEPT !.speed_start_address = 0],
                        [curve EXCEPT !.speed_start_address = MSI_EC_ADDR_UNSUPP],
                        [curve EXCEPT !.temperature_start_address = 0],
                        [curve EXCEPT !.temperature_start_address = MSI_EC_ADDR_UNSUPP],
                        [curve EXCEPT !.entries_count = 0],
                        [curve EXCEPT !.entries_count = CURVE_MAX_ENTRIES + 1]}
         IN  /\ \A c \in barred :
                  /\ sync_ec_curve(m0, c, pack.curve_fan_speed, pack.curve_temp)
                        = [res |-> -EINVAL, m |-> m0]
                  /\ push_ec_curve(m0, c, pack.curve_fan_speed, pack.curve_temp)
                        = [res |-> -EINVAL, m |-> m0]
             /\ \A k \in 1..MaxFailAt :
                  LET s == sync_ec_curve(Machine(k), curve, pack.curve_fan_speed,
                                         pack.curve_temp)
                      p == push_ec_curve(Machine(k), curve, pack.curve_fan_speed,
                                         pack.curve_temp)
                  IN  k <= 2 * n - 1 =>
                        /\ s.res = -EIO /\ Len(s.m.io) = k /\ s.m.ec = ec
                        /\ \A j \in 0..(2 * n - 2) :
                              slot(s.m, j) = IF j < k - 1 THEN ec[reg(j)] ELSE slot(m0, j)
                        /\ p.res = -EIO /\ Len(p.m.io) = k
                        /\ Buffers(p.m) = Buffers(m0)
                        /\ \A j \in 0..(2 * n - 2) :
                              p.m.ec[reg(j)] = IF j < k - 1 THEN slot(m0, j) ELSE ec[reg(j)]

\* the active buffer of the cpu fan differs from the curve registers in the
\* first two speeds, and a push whose second write fails has written the
\* first speed only
WitPullPushFailure ==
    /\ Running
    /\ ActiveCurve(Machine(0), 0).speed[0] # ECCurve(Machine(0), 0).speed[0]
    /\ ActiveCurve(Machine(0), 0).speed[1] # ECCurve(Machine(0), 0).speed[1]
    /\ LET p == push_ec_curve(Machine(2), curve_pack(0).curve,
                              curve_pack(0).curve_fan_speed, curve_pack(0).curve_temp)
       IN  /\ p.res = -EIO
           /\ ECCurve(p.m, 0).speed[0] = ActiveCurve(Machine(0), 0).speed[0]
           /\ ECCurve(p.m, 0).speed[1] = ECCurve(Machine(0), 0).speed[1]

\* C32 (Normal strategy): for an allowed curve whose apply strategy is
\* Normal, in every fan mode a curve show that succeeds prints the curve
\* registers and leaves the active buffer equal to them, a whole-curve or a
\* per-point store that succeeds leaves the curve registers equal to the
\* active buffer, and no fan-mode write and no PWM-enable write touches the
\* curve's registers or buffers.
NormalStrategy ==
    Running =>
      \A fan \in 0..1 :
         LET pack == curve_pack(fan)
             show(m0) == curve_show(m0, pack)
             untouched(m0, r) == /\ Touching(r.m.io, CurveAddrs(fan)) = {}
                             /\ ActiveCurve(r.m, fan) = ActiveCurve(m0, fan)
                             /\ DefaultCurve(r.m, fan) = DefaultCurve(m0, fan)
         IN  (/\ pack.curve.apply_strategy = CURVE_APPLY_STRATEGY_NORMAL
              /\ is_curve_allowed(pack.curve)) =>
             \A fm \in FanModeRegAtLoad \cup {ModeValue(FM_SILENT_NAME)} :
               LET m0 == [Machine(0) EXCEPT !.ec[U8(conf.fan_mode.address)] = fm]
               IN
               /\ show(m0).res > 0
               /\ ActiveCurve(show(m0).m, fan) = ECCurve(m0, fan)
               /\ show(m0).out = print_curve(ECCurve(m0, fan).speed, ECCurve(m0, fan).temp,
                                         pack.curve.entries_count)
               /\ \A buf \in {TextOf(CustomTokens), TextOf(CustomTokens) \o <<"\n">>} :
                     LET st == curve_store(m0, pack, buf, 0)
                     IN  /\ st.res = Len(buf)
                         /\ ECCurve(st.m, fan) = ActiveCurve(st.m, fan)
               /\ \A a \in {a \in curve_attrs : a[1] = fan}, val \in {0, 100} :
                     LET st == curve_attr_store(m0, a[1], a[2], a[3],
                                                [ret |-> 0, val |-> val], 3)
                     IN  st.res = 3 /\ ECCurve(st.m, fan) = ActiveCurve(st.m, fan)
               /\ \A buf \in FanModeTexts : untouched(m0, fan_mode_store(m0, buf))
               /\ \A channel \in 0..1, val \in PwmEnableValues :
                     untouched(m0, msi_ec_hwmon_write(m0, channel, val))

\* the cpu curve has the Normal strategy, the fan mode is auto, and a store
\* has left the active buffer and the curve registers with another curve than
\* the default one
WitNormalStrategy ==
    /\ Running
    /\ conf.cpu.fan_curve.apply_strategy = CURVE_APPLY_STRATEGY_NORMAL
    /\ ec[U8(conf.fan_mode.address)] = ModeValue(FM_AUTO_NAME)
    /\ ActiveCurve(Machine(0), 0) # DefaultCurve(Machine(0), 0)
    /\ ECCurve(Machine(0), 0) = ActiveCurve(Machine(0), 0)

\* C33 (buffer index bounds): the buffers are zeroed statics, and every
\* operation writes speed slots below entries_count and temperature slots
\* below entries_count - 1 only, so that the slots from there on still hold
\* the zero they were loaded with.
BufferIndexBounds ==
    conf_loaded =>
      \A fan \in 0..1 :
         LET n == curve_pack(fan).curve.entries_count
         IN  is_curve_allowed(curve_pack(fan).curve) =>
               /\ \A i \in (n - 1)..(CURVE_MAX_ENTRIES - 1) :
                     /\ curve_temp[fan][i] = 0
                     /\ curve_temp_default[fan][i] = 0
               /\ \A i \in n..(CURVE_MAX_ENTRIES - 1) :
                     /\ curve_fan_speed[fan][i] = 0
                     /\ curve_fan_speed_default[fan][i] = 0

----------------------------------------------------------------------------
(* The read-modify-write helpers of the bus, two calls at once.  Each      *)
(* helper holds a mutex of its own over its read and its write.            *)

\* .super_battery = { .address = 0xeb, .mask = 0x0f } of CONF2
SuperBatteryAddress == 235

SuperBatteryMask == 15

\* the module running on CONF2 and two requests about to call a helper:
\* super_battery_store of "on" (ec_set_by_mask) or of "off"
\* (ec_unset_by_mask), cooler_boost_store of "on" or of "off" (ec_set_bit);
\* the field fan of a request holds the value of ec_set_bit
InitRmw ==
    \E sb \in {0, SuperBatteryMask, 165}, cb \in CoolerBoostRegAtLoad,
       call \in [0..1 -> {<<"ec_set_by_mask", 1>>, <<"ec_unset_by_mask", 0>>,
                          <<"ec_set_bit", 1>>, <<"ec_set_bit", 0>>}] :
        /\ phase = "running"
        /\ firmware = NULL
        /\ ec_fw_version = ConfNamed("CONF2").allowed_fw[1]
        /\ debug = FALSE
        /\ conf_loaded = TRUE
        /\ conf = ConfNamed("CONF2")
        /\ ec = [a \in ECAddrs \cup {SuperBatteryAddress} |->
                    IF a = SuperBatteryAddress THEN sb ELSE ECAtLoad(13, cb)[a]]
        /\ curve_temp = ZeroBuffers
        /\ curve_fan_speed = ZeroBuffers
        /\ curve_temp_default = ZeroBuffers
        /\ curve_fan_speed_default = ZeroBuffers
        /\ virtual_hwmon_pwm_enable = [c \in 0..1 |-> -1]
        /\ threads = [t \in 0..1 |-> Request(call[t][1], "lock", call[t][2], 0, 0)]

\* one step of ec_set_by_mask, ec_unset_by_mask or ec_set_bit: mutex_lock of
\* the helper's own mutex, ec_read into stored (goto unlock when it fails),
\* ec_write of the changed byte, mutex_unlock
RmwStep(t) ==
    LET q == threads[t]
        addr == IF q.op = "ec_set_bit" THEN conf.cooler_boost.address
                ELSE SuperBatteryAddress
        locked(u) == threads[u].pc \in {"read", "write", "unlock"}
        masked(stored, set) ==
            LET RECURSIVE from(_)
                from(b) == IF b > 7 THEN 0
                           ELSE from(b + 1) +
                                (IF TestBit(SuperBatteryMask, b)
                                 THEN (IF set THEN BIT(b) ELSE 0)
                                 ELSE (IF TestBit(stored, b) THEN BIT(b) ELSE 0))
            IN  from(0)
        changed == IF q.op = "ec_set_by_mask" THEN masked(q.i, TRUE)
                   ELSE IF q.op = "ec_unset_by_mask" THEN masked(q.i, FALSE)
                   ELSE IF q.fan = 1 THEN SetBit(q.i, conf.cooler_boost.bit)
                   ELSE ClearBit(q.i, conf.cooler_boost.bit)
    IN  /\ q.op \in {"ec_set_by_mask", "ec_unset_by_mask", "ec_set_bit"}
        /\ \/ /\ q.pc = "lock"
              /\ \A u \in 0..1 : u # t => ~ (threads[u].op = q.op /\ locked(u))
              /\ threads' = [threads EXCEPT ![t].pc = "read"]
              /\ UNCHANGED ec
           \/ /\ q.pc = "read"
              /\ \E done \in BOOLEAN :
                    threads' = [threads EXCEPT ![t] =
                                   IF done THEN [q EXCEPT !.pc = "write", !.i = ec[addr]]
                                   ELSE [q EXCEPT !.pc = "unlock"]]
              /\ UNCHANGED ec
           \/ /\ q.pc = "write"
              /\ \E done \in BOOLEAN :
                    /\ ec' = IF done THEN [ec EXCEPT ![addr] = changed] ELSE ec
                    /\ threads' = [threads EXCEPT ![t].pc = "unlock",
                                                  ![t].wrote = IF done THEN 1 ELSE 0]
           \/ /\ q.pc = "unlock"
              /\ threads' = [threads EXCEPT ![t].pc = "done"]
              /\ UNCHANGED ec
        /\ UNCHANGED <<phase, firmware, debug, ec_fw_version, conf, conf_loaded,
                       virtual_hwmon_pwm_enable, curve_temp, curve_fan_speed,
                       curve_temp_default, curve_fan_speed_default>>

NextRmw == \E t \in 0..1 : RmwStep(t)

SpecRmw == InitRmw /\ [][NextRmw]_vars

----------------------------------------------------------------------------
(* Full, the order of a mode change, the cache and the boost bit *)

\* C35 (Full leaves fan mode and curves alone): a PWM-enable write of Full,
\* whether or not the bus fails, accesses the cooler-boost register only and
\* changes at most its boost bit and the two cached states: every other
\* register, the fan-mode register and the curve registers among them, and
\* the four curve buffers are as before.
FullFrame ==
    Running =>
      \A f \in FailChoices, channel \in 0..1 :
         LET m0 == Machine(f)
             r == msi_ec_hwmon_write(m0, channel, PWM_ENABLE_FULL)
             boost == U8(conf.cooler_boost.address)
         IN  /\ Touching(r.m.io, ECAddrs \ {boost}) = {}
             /\ \A a \in ECAddrs \ {boost} : r.m.ec[a] = m0.ec[a]
             /\ r.m.ec[boost] \in {m0.ec[boost], SetBit(m0.ec[boost], conf.cooler_boost.bit)}
             /\ Buffers(r.m) = Buffers(m0)
             /\ r.m.virtual_hwmon_pwm_enable = [c \in 0..1 |-> PWM_ENABLE_FULL]
             /\ r.res = 0 => TestBit(r.m.ec[boost], conf.cooler_boost.bit)

\* Full was written on a profile with curves: the boost bit is set, both
\* cached states are Full and the fan mode is still advanced
WitFullFrame ==
    /\ Running
    /\ ResetOnAutoFans # {}
    /\ TestBit(ec[U8(conf.cooler_boost.address)], conf.cooler_boost.bit)
    /\ virtual_hwmon_pwm_enable = [c \in 0..1 |-> PWM_ENABLE_FULL]
    /\ fan_mode_get(Machine(0)).dst = FM_ADVANCED_NAME

\* C36 (order of a mode change): in a PWM-enable write and in a fan-mode
\* name write, whether or not the bus fails, every access of a curve register
\* comes before the write of the fan-mode register, and when a curve register
\* write fails the fan-mode register is not written and an error is returned.
ModeChangeOrder ==
    Running =>
      \A f \in FailChoices :
         LET mode == U8(conf.fan_mode.address)
             ordered(r) ==
                 LET io == r.m.io
                     written == {k \in Writes(io) : io[k][2] = mode}
                 IN  /\ \A k \in written, j \in Touching(io, AllCurveAddrs) : j < k
                     /\ (Failed(io) \cap Writes(io) \cap Touching(io, AllCurveAddrs) # {}) =>
                           /\ written = {}
                           /\ r.res < 0
                           /\ r.m.ec[mode] = ec[mode]
         IN  /\ \A channel \in 0..1, val \in PwmEnableValues :
                   ordered(msi_ec_hwmon_write(Machine(f), channel, val))
             /\ \A buf \in FanModeTexts : ordered(fan_mode_store(Machine(f), buf))

\* a profile with curves has been taken to manual mode by a PWM-enable
\* write: the curve registers hold the active buffers, the fan-mode register
\* the advanced value and both cached states Manual
WitModeChangeOrder ==
    /\ Running
    /\ ResetOnAutoFans # {}
    /\ \A fan \in ResetOnAutoFans : ECCurve(Machine(0), fan) = ActiveCurve(Machine(0), fan)
    /\ ec[U8(conf.fan_mode.address)] = ModeValue(FM_ADVANCED_NAME)
    /\ virtual_hwmon_pwm_enable = [c \in 0..1 |-> PWM_ENABLE_MANUAL]

\* C37 (cache and boost bit agree on Full): after two PWM-enable writes that
\* both returned 0, a PWM-enable read that returns Full finds the boost bit
\* set, and with the boost bit set both channels read Full.
FullCoherence ==
    Running =>
      \A c1 \in 0..1, c2 \in 0..1, v1 \in PwmEnableValues, v2 \in PwmEnableValues :
         LET w1 == msi_ec_hwmon_write(Machine(0), c1, v1)
             w2 == msi_ec_hwmon_write(Fresh(w1.m), c2, v2)
             read(c) == msi_ec_hwmon_read(Fresh(w2.m), c)
             boost(m) == TestBit(m.ec[U8(conf.cooler_boost.address)], conf.cooler_boost.bit)
         IN  (Went(w1) /\ Went(w2)) =>
               /\ \A c \in 0..1 :
                     (Went(read(c)) /\ read(c).val = <<PWM_ENABLE_FULL>>) => boost(read(c).m)
               /\ boost(w2.m) =>
                     \A c \in 0..1 : Went(read(c)) /\ read(c).val = <<PWM_ENABLE_FULL>>

----------------------------------------------------------------------------
(* Stores that fail, stores that wait, the unrecognized fan mode *)

\* C38 (a failed store changes nothing): when a whole-curve store or a
\* per-point store returns an error, whether from the text, the value, the
\* fan-mode query or a register write of the push, the active buffer of the
\* fan is as it was before the call.
FailedStoreKeepsBuffer ==
    Running =>
      \A f \in FailChoices, fan \in 0..1 :
         LET m0 == Machine(f)
             kept(r) == r.res < 0 => ActiveCurve(r.m, fan) = ActiveCurve(m0, fan)
         IN  /\ \A buf \in {TextOf(CustomTokens), TextOf([CustomTokens EXCEPT ![1] = 151])},
                   g \in GarbageBytes :
                   kept(curve_store(m0, curve_pack(fan), buf, g))
             /\ \A a \in StorePoints, val \in {0, 100, 256} :
                   a[1] = fan =>
                      kept(curve_attr_store(m0, a[1], a[2], a[3], [ret |-> 0, val |-> val], 3))

\* C40 (an unrecognized fan mode bars a ResetOnAuto curve): for an allowed
\* ResetOnAuto curve, when the fan-mode register holds a value no mode of the
\* profile has, or its read fails, curve show and the stores whose text or
\* value is accepted return -ENODATA and access no curve register.
UnrecognizedModeBlocks ==
    Running =>
      \A fan \in ResetOnAutoFans, f \in {0, 1} :
         LET m0 == Machine(f)
             blocked(r) == /\ r.res = -ENODATA
                           /\ Touching(r.m.io, AllCurveAddrs) = {}
                           /\ ECCurve(r.m, fan) = ECCurve(m0, fan)
         IN  (f = 1 \/ ModesOfValue(ec[U8(conf.fan_mode.address)]) = {}) =>
               /\ blocked(curve_show(m0, curve_pack(fan)))
               /\ \A g \in GarbageBytes :
                     blocked(curve_store(m0, curve_pack(fan), TextOf(CustomTokens), g))
               /\ \A a \in StorePoints : a[1] = fan =>
                     blocked(curve_attr_store(m0, a[1], a[2], a[3], [ret |-> 0, val |-> 100], 3))

\* a profile with ResetOnAuto curves is running and its fan-mode register
\* holds a value none of its modes has
WitUnrecognizedModeBlocks ==
    /\ Running
    /\ ResetOnAutoFans # {}
    /\ ModesOfValue(ec[U8(conf.fan_mode.address)]) = {}
    /\ curve_show(Machine(0), curve_pack(0)).res = -ENODATA

\* C39 (deferred apply): a whole-curve or per-point store on a ResetOnAuto
\* curve, accepted while the fan mode is a recognized one other than advanced,
\* changes the active buffer only; after up to two transitions between
\* non-manual modes, by name or by PWM-enable writes, the next entry into
\* manual mode that goes through leaves the stored curve in the curve
\* registers and in the active buffer.
DeferredApply ==
    (/\ Running
     /\ fan_mode_get(Machine(0)).res = 0
     /\ fan_mode_get(Machine(0)).dst # FM_ADVANCED_NAME) =>
      \A fan \in ResetOnAutoFans :
         LET m0 == Machine(0)
             stores == {curve_store(m0, curve_pack(fan), TextOf(CustomTokens), g) :
                           g \in GarbageBytes}
                       \cup {curve_attr_store(m0, a[1], a[2], a[3],
                                              [ret |-> 0, val |-> val], 3) :
                                a \in {x \in StorePoints : x[1] = fan}, val \in {100}}
             hop(m, k) == CASE k = 0 -> [res |-> 0, oops |-> FALSE, m |-> m]
                            [] k = 1 -> LeaveToAuto(m, 2)
                            [] k = 2 -> AsWrite(fan_mode_store(m, FM_SILENT_NAME))
                            [] k = 3 -> msi_ec_hwmon_write(m, 0, PWM_ENABLE_SILENT)
                            [] k = 4 -> LeaveToAuto(m, 0)
             hops == {<<0, 0>>, <<1, 0>>, <<2, 0>>, <<3, 0>>, <<4, 0>>, <<2, 1>>, <<3, 4>>}
         IN  \A s \in stores :
                s.res > 0 =>
                  /\ s.m.ec = ec
                  /\ Touching(s.m.io, AllCurveAddrs) = {}
                  /\ DefaultCurve(s.m, fan) = DefaultCurve(m0, fan)
                  /\ \A k \in hops, how \in 0..2 :
                        LET h1 == hop(Fresh(s.m), k[1])
                            h2 == hop(Fresh(h1.m), k[2])
                            r == EnterManual(Fresh(h2.m), how)
                        IN  (Went(h1) /\ Went(h2) /\ Went(r)) =>
                              /\ ECCurve(r.m, fan) = ActiveCurve(s.m, fan)
                              /\ ActiveCurve(r.m, fan) = ActiveCurve(s.m, fan)
                              /\ r.m.ec[U8(conf.fan_mode.address)] = ModeValue(FM_ADVANCED_NAME)

\* manual mode has been entered with a custom curve in the active buffer of
\* the cpu fan: the curve registers hold it, not the default curve
WitDeferredApply ==
    /\ Running
    /\ 0 \in ResetOnAutoFans
    /\ ec[U8(conf.fan_mode.address)] = ModeValue(FM_ADVANCED_NAME)
    /\ ActiveCurve(Machine(0), 0).speed[0] = CustomTokens[1]
    /\ ECCurve(Machine(0), 0) = ActiveCurve(Machine(0), 0)
    /\ ECCurve(Machine(0), 0) # DefaultCurve(Machine(0), 0)
====
